---- MODULE Spec2Model ----
(***************************************************************************)
(* Model of the metacrm IAM database layer: the bootstrap.outbox delivery  *)
(* state machine (000001 bootstrap / 000006 event migrations) and the      *)
(* cache schema with its invalidation triggers (cache migration).          *)
(*                                                                         *)
(* The PL/pgSQL function bodies are modelled statement by statement.  One  *)
(* clock tick is one minute for the outbox and one TTL unit for the cache. *)
(* Event payloads are not modelled.                                        *)
(***************************************************************************)
EXTENDS Integers, Sequences, FiniteSets, TLC

NULL == "NULL"        \* SQL NULL in a text column
NullNum == -1         \* SQL NULL in an integer or timestamptz column

\* ------------------------------------------------------------------ bounds
MaxTime == 2           \* the clock stops advancing here
MaxDeliveryTime == 7   \* the clock of the delivery protocol stops here
MaxOutbox == 1         \* rows the outbox table may hold
MaxAttemptsArg == 3    \* largest p_max_attempts a caller passes
MaxCacheTime == 1      \* the clock of the cache specification stops here
MaxHookEvents == 5     \* outbox rows the trigger-fed outbox may hold

\* ------------------------------------------------------- program constants
MinutesPerAttempt == 2       \* (attempt * 2 || ' minutes')::interval
DefaultLimit == 100          \* p_limit DEFAULT 100
DefaultMaxAttempts == 5      \* p_max_attempts DEFAULT 5

Workers == {"w1", "w2"}
Tenants == {"t1", "t2"}
Aggregates == {"user"}
EventTypes == {"iam.user.created"}

\* The rows of iam.user, cluster.group, security.permission_set, security.object
\* and security.field; all of them belong to tenant t1.
Users == {"u1"}
Groups == {"g1"}
PermissionSets == {"ps1", "ps2"}
Objects == {"o1"}
Fields == {"f1"}
RowRefs == {"r1"}
HomeTenant == "t1"
\* security.permission_set.group_id
PermissionSetGroup == [ps \in PermissionSets |-> "g1"]
\* security.field.object_id
FieldObject == [f \in Fields |-> "o1"]

\* Bitmasks callers write and TTLs (in clock ticks) callers pass.
GrantChoices == {1, 6}
TtlChoices == {1}
Sessions == {"s1", "s2"}

VARIABLES
    outbox,       \* bootstrap.outbox: sequence of rows, index = id
    now,          \* now()
    ret,          \* the last call and what it returned
    failed_acks,  \* per row id: failed deliveries the workers have acknowledged
    max_attempts, \* the p_max_attempts the delivery workers are configured with
    db,           \* the cluster / security / cache tables
    calls         \* per session: the cache read it has begun and not finished

vars == <<outbox, now, ret, failed_acks, max_attempts, db, calls>>

Ids == 1..MaxOutbox
RowIds == DOMAIN outbox

\* No session is inside a cache read.
NoCalls == [c \in Sessions |-> [pc |-> "idle"]]

\* The state of the database after the migrations: every table is empty.
EmptyDb ==
    [ group_member             |-> {},
      object_permissions       |-> {},
      field_permissions        |-> {},
      group_object_permissions |-> {},
      user_object_permissions  |-> {},
      user_field_restrictions  |-> {},
      user_row_permissions     |-> {} ]

\* ------------------------------------------------------------ outbox table
\* A new row with the column defaults of bootstrap.outbox.
NewOutboxRow(aggregate_type, aggregate_id, event_type, tenant) ==
    [ aggregate_type  |-> aggregate_type,
      aggregate_id    |-> aggregate_id,
      event_type      |-> event_type,
      tenant_id       |-> tenant,
      status          |-> "pending",
      attempt         |-> 0,
      next_attempt_at |-> now,
      locked_by       |-> NULL,
      locked_at       |-> NullNum,
      created_at      |-> now,
      published_at    |-> NullNum ]

\* aggregate_type, aggregate_id and event_type are NOT NULL columns.
OutboxRowAccepted(row) ==
    NULL \notin {row.aggregate_type, row.aggregate_id, row.event_type}

\* INSERT INTO bootstrap.outbox (...) VALUES (...)
InsertOutbox(ob, row) == Append(ob, row)

\* bootstrap.create_outbox_event
create_outbox_event(aggregate_type, aggregate_id, event_type, tenant) ==
    /\ Len(outbox) < MaxOutbox
    /\ OutboxRowAccepted(NewOutboxRow(aggregate_type, aggregate_id, event_type, tenant))
    /\ outbox' = InsertOutbox(outbox, NewOutboxRow(aggregate_type, aggregate_id, event_type, tenant))
    /\ ret' = [op |-> "create_outbox_event", id |-> Len(outbox) + 1, arg |-> NULL, value |-> NULL]
    /\ UNCHANGED <<now, failed_acks, max_attempts, calls, db>>

\* A faulty WHERE clause that does not look at the status.
ReadyMutantNoStatusCheck(row) == row.next_attempt_at <= now

\* WHERE o.status = 'pending' AND o.next_attempt_at <= now()
ReadyForProcessing(row) ==
    /\ row.status = "pending"
    /\ row.next_attempt_at <= now

\* The first n elements of a sequence (LIMIT n).
Limit(s, n) == IF Len(s) <= n THEN s ELSE SubSeq(s, 1, n)

\* Ids of the rows satisfying Keep, in id order.
RECURSIVE SelectIds(_, _)
SelectIds(ob, n) ==
    IF n = 0 THEN <<>>
    ELSE IF ReadyForProcessing(ob[n]) THEN Append(SelectIds(ob, n - 1), n)
         ELSE SelectIds(ob, n - 1)

\* bootstrap.get_events_ready_for_processing: ORDER BY created_at LIMIT p_limit.
\* Rows are appended in creation order, so id order is created_at order.
get_events_ready_for_processing(p_limit) == Limit(SelectIds(outbox, Len(outbox)), p_limit)

GetEventsReadyForProcessing(w) ==
    /\ ret' = [op |-> "get_events_ready_for_processing", id |-> NULL, arg |-> w,
               value |-> get_events_ready_for_processing(DefaultLimit)]
    /\ UNCHANGED <<outbox, now, failed_acks, max_attempts, calls, db>>

\* The WHERE clause of the UPDATE in bootstrap.mark_event_processing.
ClaimMutantNoStatusCheck(p_id) ==
    /\ p_id \in RowIds
    /\ outbox[p_id].next_attempt_at <= now

\* A faulty WHERE clause that does not look at next_attempt_at.
ClaimMutantNoDueCheck(p_id) ==
    /\ p_id \in RowIds
    /\ outbox[p_id].status = "pending"

ClaimWhere(p_id) ==
    /\ p_id \in RowIds
    /\ outbox[p_id].status = "pending"
    /\ outbox[p_id].next_attempt_at <= now

\* bootstrap.mark_event_processing(p_id, p_worker_id) RETURNS BOOLEAN
mark_event_processing(p_id, p_worker_id) ==
    IF ClaimWhere(p_id)
    THEN /\ outbox' = [outbox EXCEPT ![p_id].status = "processing",
                                     ![p_id].locked_by = p_worker_id,
                                     ![p_id].locked_at = now,
                                     ![p_id].attempt = @ + 1]
         /\ ret' = [op |-> "mark_event_processing", id |-> p_id, arg |-> p_worker_id,
                    value |-> TRUE]
    ELSE /\ outbox' = outbox
         /\ ret' = [op |-> "mark_event_processing", id |-> p_id, arg |-> p_worker_id,
                    value |-> FALSE]

MarkEventProcessing(p_id, w) ==
    /\ mark_event_processing(p_id, w)
    /\ UNCHANGED <<now, failed_acks, max_attempts, calls, db>>

\* A faulty ack that leaves the lock columns as they are.
mark_event_completedMutantKeepsLock(p_id) ==
    /\ outbox' = IF p_id \in RowIds
                 THEN [outbox EXCEPT ![p_id].status = "done",
                                     ![p_id].published_at = now]
                 ELSE outbox
    /\ ret' = [op |-> "mark_event_completed", id |-> p_id, arg |-> NULL, value |-> NULL]

\* bootstrap.mark_event_completed(p_id): UPDATE ... WHERE id = p_id
mark_event_completed(p_id) ==
    /\ outbox' = IF p_id \in RowIds
                 THEN [outbox EXCEPT ![p_id].status = "done",
                                     ![p_id].published_at = now,
                                     ![p_id].locked_by = NULL,
                                     ![p_id].locked_at = NullNum]
                 ELSE outbox
    /\ ret' = [op |-> "mark_event_completed", id |-> p_id, arg |-> NULL, value |-> NULL]

MarkEventCompleted(p_id) ==
    /\ mark_event_completed(p_id)
    /\ UNCHANGED <<now, failed_acks, max_attempts, calls, db>>

\* status = CASE WHEN attempt >= p_max_attempts THEN 'dead' ELSE 'pending' END
FailedStatusMutantOffByOne(attempt, p_max_attempts) ==
    IF attempt > p_max_attempts THEN "dead" ELSE "pending"

\* A faulty CASE that never dead-letters.
FailedStatusMutantNeverDead(attempt, p_max_attempts) == "pending"

FailedStatus(attempt, p_max_attempts) ==
    IF attempt >= p_max_attempts THEN "dead" ELSE "pending"

\* bootstrap.mark_event_failed(p_id, p_max_attempts): UPDATE ... WHERE id = p_id
mark_event_failed(p_id, p_max_attempts) ==
    /\ outbox' = IF p_id \in RowIds
                 THEN [outbox EXCEPT
                         ![p_id].status = FailedStatus(outbox[p_id].attempt, p_max_attempts),
                         ![p_id].next_attempt_at = now + outbox[p_id].attempt * MinutesPerAttempt,
                         ![p_id].locked_by = NULL,
                         ![p_id].locked_at = NullNum]
                 ELSE outbox
    /\ ret' = [op |-> "mark_event_failed", id |-> p_id, arg |-> p_max_attempts, value |-> NULL]

MarkEventFailed(p_id, p_max_attempts) ==
    /\ p_id \in Ids
    /\ mark_event_failed(p_id, p_max_attempts)
    /\ UNCHANGED <<now, failed_acks, max_attempts, calls, db>>

\* -------------------------------------------------------------- bitmasks
\* A faulty & that yields its right operand.
BitAndMutantRightOperand(a, b) == b

\* a & b
RECURSIVE BitAnd(_, _)
BitAnd(a, b) ==
    IF a = 0 \/ b = 0 THEN 0
    ELSE ((a % 2) * (b % 2)) + 2 * BitAnd(a \div 2, b \div 2)

\* a | b
RECURSIVE BitOr(_, _)
BitOr(a, b) ==
    IF a = 0 THEN b
    ELSE IF b = 0 THEN a
    ELSE (IF a % 2 = 1 \/ b % 2 = 1 THEN 1 ELSE 0) + 2 * BitOr(a \div 2, b \div 2)

\* The aggregate bit_or(...) over the selected values: NULL over no rows.
RECURSIVE bit_or(_)
bit_or(S) ==
    IF S = {} THEN NullNum
    ELSE LET x == CHOOSE y \in S : TRUE
         IN  IF S = {x} THEN x ELSE BitOr(x, bit_or(S \ {x}))

COALESCE(v, d) == IF v = NullNum THEN d ELSE v

\* ------------------------------------------------------------ cache reads
\* A faulty lookup that does not look at expires_at.
LiveUserObjectMutantNoExpiry(d, t, u, o) ==
    {e \in d.user_object_permissions :
        e.tenant_id = t /\ e.user_id = u /\ e.object_id = o}

\* SELECT ... FROM cache.user_object_permissions WHERE <key> AND expires_at > now()
LiveUserObject(d, t, u, o) ==
    {e \in d.user_object_permissions :
        /\ e.tenant_id = t /\ e.user_id = u /\ e.object_id = o
        /\ e.expires_at > now}

\* A faulty join that takes the group-level rows of every tenant.
MemberGroupPermissionsMutantAnyTenant(d, t, u, o) ==
    {gop \in d.group_object_permissions :
        /\ gop.object_id = o
        /\ gop.expires_at > now
        /\ \E gm \in d.group_member :
              /\ gm.tenant_id = t
              /\ gm.member_user_id = u
              /\ gm.deleted_at = NullNum
              /\ gop.group_id = gm.group_id}

\* The join of cluster.group_member and cache.group_object_permissions in
\* cache.get_object_permissions.
MemberGroupPermissions(d, t, u, o) ==
    {gop \in d.group_object_permissions :
        /\ gop.tenant_id = t
        /\ gop.object_id = o
        /\ gop.expires_at > now
        /\ \E gm \in d.group_member :
              /\ gm.tenant_id = t
              /\ gm.member_user_id = u
              /\ gm.deleted_at = NullNum
              /\ gop.group_id = gm.group_id}

\* INSERT INTO cache.user_object_permissions ... ON CONFLICT (tenant_id,
\* user_id, object_id) DO UPDATE.  (cached_at is written and never read.)
UpsertUserObject(d, t, u, o, perm, ttl) ==
    [d EXCEPT !.user_object_permissions =
        {e \in @ : ~(e.tenant_id = t /\ e.user_id = u /\ e.object_id = o)}
        \cup {[tenant_id |-> t, user_id |-> u, object_id |-> o,
               base_permissions |-> perm, expires_at |-> now + ttl]}]

\* The computation of cache.get_object_permissions on a miss: a zero result
\* returns without caching.
ComputeObjectPermissions(d, t, u, o, ttl) ==
    LET computed == COALESCE(bit_or({g.base_permissions : g \in MemberGroupPermissions(d, t, u, o)}), 0)
    IN  IF computed = NullNum \/ computed = 0
        THEN [value |-> 0, db |-> d]
        ELSE [value |-> computed, db |-> UpsertUserObject(d, t, u, o, computed, ttl)]

\* cache.get_object_permissions(p_tenant_id, p_user_id, p_object_id, p_ttl_seconds)
get_object_permissions(d, p_tenant_id, p_user_id, p_object_id, p_ttl) ==
    LET hit == LiveUserObject(d, p_tenant_id, p_user_id, p_object_id)
        cached_permissions ==
            IF hit = {} THEN NullNum ELSE (CHOOSE e \in hit : TRUE).base_permissions
    IN  IF cached_permissions = NullNum
        THEN ComputeObjectPermissions(d, p_tenant_id, p_user_id, p_object_id, p_ttl)
        ELSE [value |-> cached_permissions, db |-> d]

\* cache.get_field_permissions
get_field_permissions(d, p_tenant_id, p_user_id, p_object_id, p_field_id, p_ttl) ==
    LET base == get_object_permissions(d, p_tenant_id, p_user_id, p_object_id, p_ttl)
        hit == {e \in base.db.user_field_restrictions :
                   /\ e.tenant_id = p_tenant_id /\ e.user_id = p_user_id
                   /\ e.object_id = p_object_id /\ e.field_id = p_field_id
                   /\ e.expires_at > now}
        field_restriction == IF hit = {} THEN NullNum ELSE (CHOOSE e \in hit : TRUE).restriction
    IN  [value |-> IF field_restriction # NullNum
                   THEN BitAnd(base.value, field_restriction)
                   ELSE base.value,
         db |-> base.db]

\* cache.get_row_permissions
get_row_permissions(d, p_tenant_id, p_user_id, p_object_id, p_row_id, p_ttl) ==
    LET hit == {e \in d.user_row_permissions :
                   /\ e.tenant_id = p_tenant_id /\ e.user_id = p_user_id
                   /\ e.object_id = p_object_id /\ e.row_id = p_row_id
                   /\ e.expires_at > now}
        cached_permissions == IF hit = {} THEN NullNum ELSE (CHOOSE e \in hit : TRUE).permissions
        base == get_object_permissions(d, p_tenant_id, p_user_id, p_object_id, p_ttl)
    IN  IF cached_permissions = NullNum
        THEN [value |-> base.value,
              db |-> [base.db EXCEPT !.user_row_permissions =
                        {e \in @ : ~(/\ e.tenant_id = p_tenant_id /\ e.user_id = p_user_id
                                     /\ e.object_id = p_object_id /\ e.row_id = p_row_id)}
                        \cup {[tenant_id |-> p_tenant_id, user_id |-> p_user_id,
                               object_id |-> p_object_id, row_id |-> p_row_id,
                               permissions |-> base.value, expires_at |-> now + p_ttl]}]]
        ELSE [value |-> cached_permissions, db |-> d]

GetObjectPermissions(t, u, o, ttl) ==
    /\ LET r == get_object_permissions(db, t, u, o, ttl)
       IN  /\ db' = r.db
           /\ ret' = [op |-> "get_object_permissions", id |-> NULL, arg |-> <<t, u, o>>,
                      value |-> r.value]
    /\ UNCHANGED <<outbox, now, failed_acks, max_attempts, calls>>

GetFieldPermissions(t, u, o, f, ttl) ==
    /\ LET r == get_field_permissions(db, t, u, o, f, ttl)
       IN  /\ db' = r.db
           /\ ret' = [op |-> "get_field_permissions", id |-> NULL, arg |-> <<t, u, o>>,
                      value |-> r.value]
    /\ UNCHANGED <<outbox, now, failed_acks, max_attempts, calls>>

GetRowPermissions(t, u, o, r_id, ttl) ==
    /\ LET r == get_row_permissions(db, t, u, o, r_id, ttl)
       IN  /\ db' = r.db
           /\ ret' = [op |-> "get_row_permissions", id |-> NULL, arg |-> <<t, u, o>>,
                      value |-> r.value]
    /\ UNCHANGED <<outbox, now, failed_acks, max_attempts, calls>>

\* ------------------------------------------------------ cache population
\* The permission-set aggregation of one group for one object: the bitwise OR
\* of the security.object_permissions rows of the permission sets bound to it.
GroupGrant(d, t, g, o) ==
    COALESCE(bit_or({op.permissions : op \in
        {x \in d.object_permissions :
            /\ x.tenant_id = t /\ x.object_id = o
            /\ PermissionSetGroup[x.permission_set_id] = g}}), 0)

\* The group-level cache is filled with that aggregation.
SyncGroupObjectPermissions(t, g, o, ttl) ==
    /\ \E x \in db.object_permissions :
          x.tenant_id = t /\ x.object_id = o /\ PermissionSetGroup[x.permission_set_id] = g
    /\ db' = [db EXCEPT !.group_object_permissions =
                {e \in @ : ~(e.tenant_id = t /\ e.group_id = g /\ e.object_id = o)}
                \cup {[tenant_id |-> t, group_id |-> g, object_id |-> o,
                       base_permissions |-> GroupGrant(db, t, g, o),
                       expires_at |-> now + ttl]}]
    /\ ret' = [op |-> "sync_group_object_permissions", id |-> NULL, arg |-> <<t, g, o>>,
               value |-> NULL]
    /\ UNCHANGED <<outbox, now, failed_acks, max_attempts, calls>>

\* ------------------------------------------------------- cache management
\* cache.invalidate_user_permissions_cache
invalidate_user_permissions_cache(d, p_tenant_id, p_user_id) ==
    [d EXCEPT
        !.user_object_permissions = {e \in @ : ~(e.tenant_id = p_tenant_id /\ e.user_id = p_user_id)},
        !.user_field_restrictions = {e \in @ : ~(e.tenant_id = p_tenant_id /\ e.user_id = p_user_id)},
        !.user_row_permissions    = {e \in @ : ~(e.tenant_id = p_tenant_id /\ e.user_id = p_user_id)}]

\* A faulty group purge that leaves the members' entries in place.
InvalidateGroupMutantNoCascade(d, p_tenant_id, p_group_id) ==
    [d EXCEPT
        !.group_object_permissions =
            {e \in @ : ~(e.tenant_id = p_tenant_id /\ e.group_id = p_group_id)}]

\* cache.invalidate_group_permissions_cache
invalidate_group_permissions_cache(d, p_tenant_id, p_group_id) ==
    LET member_ids == {gm.member_user_id : gm \in
                         {x \in d.group_member :
                             /\ x.tenant_id = p_tenant_id
                             /\ x.group_id = p_group_id
                             /\ x.member_user_id # NULL
                             /\ x.deleted_at = NullNum}}
    IN  [d EXCEPT
            !.group_object_permissions =
                {e \in @ : ~(e.tenant_id = p_tenant_id /\ e.group_id = p_group_id)},
            !.user_object_permissions =
                {e \in @ : ~(e.tenant_id = p_tenant_id /\ e.user_id \in member_ids)}]

\* cache.invalidate_object_permissions_cache
invalidate_object_permissions_cache(d, p_tenant_id, p_object_id) ==
    [d EXCEPT
        !.user_object_permissions  = {e \in @ : ~(e.tenant_id = p_tenant_id /\ e.object_id = p_object_id)},
        !.user_field_restrictions  = {e \in @ : ~(e.tenant_id = p_tenant_id /\ e.object_id = p_object_id)},
        !.user_row_permissions     = {e \in @ : ~(e.tenant_id = p_tenant_id /\ e.object_id = p_object_id)},
        !.group_object_permissions = {e \in @ : ~(e.tenant_id = p_tenant_id /\ e.object_id = p_object_id)}]

InvalidateUserPermissionsCache(t, u) ==
    /\ db' = invalidate_user_permissions_cache(db, t, u)
    /\ ret' = [op |-> "invalidate_user_permissions_cache", id |-> NULL, arg |-> <<t, u>>,
               value |-> NULL]
    /\ UNCHANGED <<outbox, now, failed_acks, max_attempts, calls>>

InvalidateGroupPermissionsCache(t, g) ==
    /\ db' = invalidate_group_permissions_cache(db, t, g)
    /\ ret' = [op |-> "invalidate_group_permissions_cache", id |-> NULL, arg |-> <<t, g>>,
               value |-> NULL]
    /\ UNCHANGED <<outbox, now, failed_acks, max_attempts, calls>>

InvalidateObjectPermissionsCache(t, o) ==
    /\ db' = invalidate_object_permissions_cache(db, t, o)
    /\ ret' = [op |-> "invalidate_object_permissions_cache", id |-> NULL, arg |-> <<t, o>>,
               value |-> NULL]
    /\ UNCHANGED <<outbox, now, failed_acks, max_attempts, calls>>

\* ------------------------------------------------------ invalidation hooks
\* A statement runs on the pair s = [db, outbox] and yields the pair it leaves
\* behind, or an error (which aborts the statement and its transaction).
Ok(d, ob) == [error |-> FALSE, db |-> d, outbox |-> ob]
Raise(s) == [error |-> TRUE, db |-> s.db, outbox |-> s.outbox]

\* NEW in a row-level trigger fired by DELETE: every column is null.
NullRow ==
    [tenant_id |-> NULL, record_id |-> NULL, group_id |-> NULL, member_user_id |-> NULL,
     permission_set_id |-> NULL, object_id |-> NULL, field_id |-> NULL,
     permissions |-> NullNum, deleted_at |-> NullNum]

\* cache.send_cache_invalidation_event: INSERT INTO bootstrap.outbox.
send_cache_invalidation_event(s, p_tenant_id, p_aggregate_type, p_aggregate_id, p_event_type) ==
    LET row == NewOutboxRow(p_aggregate_type, p_aggregate_id, p_event_type, p_tenant_id)
    IN  IF OutboxRowAccepted(row)
        THEN Ok(s.db, InsertOutbox(s.outbox, row))
        ELSE Raise(s)

\* cache.trigger_group_member_cache_invalidation
trigger_group_member_cache_invalidation(s, new) ==
    IF new.member_user_id # NULL
    THEN send_cache_invalidation_event(
             [db |-> invalidate_user_permissions_cache(s.db, new.tenant_id, new.member_user_id),
              outbox |-> s.outbox],
             new.tenant_id, "user", new.member_user_id, "iam.user_group_membership_changed")
    ELSE Ok(s.db, s.outbox)

\* cache.trigger_permissions_cache_invalidation
trigger_permissions_cache_invalidation(s, new) ==
    send_cache_invalidation_event(
        [db |-> invalidate_object_permissions_cache(s.db, new.tenant_id, new.object_id),
         outbox |-> s.outbox],
        new.tenant_id, "object", new.object_id, "iam.object_permissions_changed")

\* cache.trigger_field_permissions_cache_invalidation reads NEW.object_id;
\* a row of security.field_permissions has no such column.
trigger_field_permissions_cache_invalidation(s, new) ==
    IF "object_id" \in DOMAIN new
    THEN send_cache_invalidation_event(
             [db |-> invalidate_object_permissions_cache(s.db, new.tenant_id, new.object_id),
              outbox |-> s.outbox],
             new.tenant_id, "object", new.object_id, "iam.field_permissions_changed")
    ELSE Raise(s)

\* cluster.generate_group_member_added_event (the payload is not modelled)
generate_group_member_added_event(s, new) ==
    LET row == NewOutboxRow("group_member", new.record_id, "iam.group_member.added", new.tenant_id)
    IN  IF OutboxRowAccepted(row) THEN Ok(s.db, InsertOutbox(s.outbox, row)) ELSE Raise(s)

\* cluster.generate_group_member_removed_event (the payload is not modelled)
generate_group_member_removed_event(s, old, new) ==
    IF old.deleted_at = NullNum /\ new.deleted_at # NullNum
    THEN LET row == NewOutboxRow("group_member", old.record_id, "iam.group_member.removed", old.tenant_id)
         IN  IF OutboxRowAccepted(row) THEN Ok(s.db, InsertOutbox(s.outbox, row)) ELSE Raise(s)
    ELSE Ok(s.db, s.outbox)

\* What the next trigger of a statement runs on.
After(r) == [db |-> r.db, outbox |-> r.outbox]

\* ------------------------------------------------------------ domain writes
GroupMemberRow(t, g, u) ==
    [tenant_id |-> t, record_id |-> "grp_" \o g \o "_" \o u, group_id |-> g,
     member_user_id |-> u, deleted_at |-> NullNum]

\* INSERT INTO cluster.group_member (group_id, member_user_id): the unique index
\* ux_group_member_user, then the AFTER INSERT triggers in name order.
insert_group_member(s, t, g, u) ==
    LET new == GroupMemberRow(t, g, u)
    IN  IF \E x \in s.db.group_member :
              x.tenant_id = t /\ x.group_id = g /\ x.member_user_id = u
        THEN Raise(s)
        ELSE LET s1 == [s EXCEPT !.db.group_member = @ \cup {new}]
                 r1 == generate_group_member_added_event(s1, new)
             IN  IF r1.error THEN r1
                 ELSE trigger_group_member_cache_invalidation(After(r1), new)

\* UPDATE cluster.group_member SET deleted_at = now() WHERE <row>: the AFTER
\* UPDATE triggers in name order.
soft_delete_group_member(s, old) ==
    LET new == [old EXCEPT !.deleted_at = now]
        s1 == [s EXCEPT !.db.group_member = (@ \ {old}) \cup {new}]
        r1 == trigger_group_member_cache_invalidation(s1, new)
    IN  IF r1.error THEN r1
        ELSE generate_group_member_removed_event(After(r1), old, new)

\* DELETE FROM cluster.group_member WHERE <row>: the AFTER DELETE trigger.
delete_group_member(s, old) ==
    trigger_group_member_cache_invalidation(
        [s EXCEPT !.db.group_member = @ \ {old}], NullRow)

ObjectPermissionRow(t, ps, o, p) ==
    [tenant_id |-> t, permission_set_id |-> ps, object_id |-> o, permissions |-> p]

\* INSERT INTO security.object_permissions: UNIQUE (tenant_id,
\* permission_set_id, object_id), then the AFTER INSERT trigger.
insert_object_permissions(s, t, ps, o, p) ==
    IF \E x \in s.db.object_permissions :
          x.tenant_id = t /\ x.permission_set_id = ps /\ x.object_id = o
    THEN Raise(s)
    ELSE trigger_permissions_cache_invalidation(
             [s EXCEPT !.db.object_permissions = @ \cup {ObjectPermissionRow(t, ps, o, p)}],
             ObjectPermissionRow(t, ps, o, p))

\* UPDATE security.object_permissions SET permissions = p WHERE <row>
update_object_permissions(s, old, p) ==
    LET new == [old EXCEPT !.permissions = p]
    IN  trigger_permissions_cache_invalidation(
            [s EXCEPT !.db.object_permissions = (@ \ {old}) \cup {new}], new)

\* DELETE FROM security.object_permissions WHERE <row>
delete_object_permissions(s, old) ==
    trigger_permissions_cache_invalidation(
        [s EXCEPT !.db.object_permissions = @ \ {old}], NullRow)

\* INSERT INTO security.field_permissions (permission_set_id, field_id, permissions)
insert_field_permissions(s, t, ps, f, p) ==
    trigger_field_permissions_cache_invalidation(
        s, [tenant_id |-> t, permission_set_id |-> ps, field_id |-> f, permissions |-> p])

\* now() advances.
Tick ==
    /\ now < MaxTime
    /\ now' = now + 1
    /\ UNCHANGED <<outbox, ret, failed_acks, max_attempts, calls, db>>

CreateOutboxEvent ==
    \E a \in Aggregates, e \in EventTypes :
        create_outbox_event(a, "1", e, HomeTenant)

Init ==
    /\ outbox = <<>>
    /\ now = 0
    /\ ret = [op |-> "none", id |-> NULL, arg |-> NULL, value |-> NULL]
    /\ failed_acks = [i \in Ids |-> 0]
    /\ max_attempts = DefaultMaxAttempts
    /\ calls = NoCalls
    /\ db = EmptyDb

\* Any caller may call any function with any argument, in any order.
Next ==
    \/ CreateOutboxEvent
    \/ Tick
    \/ \E w \in Workers : GetEventsReadyForProcessing(w)
    \/ \E i \in Ids, w \in Workers : MarkEventProcessing(i, w)
    \/ \E i \in Ids : MarkEventCompleted(i)
    \/ \E i \in Ids, n \in 1..MaxAttemptsArg : MarkEventFailed(i, n)

Spec == Init /\ [][Next]_vars

\* ------------------------------------------------- the delivery protocol
\* The worker flow of the outbox usage notes: claim a row, then ack it.  Here
\* every delivery fails, and every ack passes the same p_max_attempts.
InitDelivery ==
    /\ outbox = <<>>
    /\ now = 0
    /\ ret = [op |-> "none", id |-> NULL, arg |-> NULL, value |-> NULL]
    /\ failed_acks = [i \in Ids |-> 0]
    /\ max_attempts \in 1..MaxAttemptsArg
    /\ calls = NoCalls
    /\ db = EmptyDb

\* now() advances.
DeliveryTick ==
    /\ now < MaxDeliveryTime
    /\ now' = now + 1
    /\ UNCHANGED <<outbox, ret, failed_acks, max_attempts, calls, db>>

WorkerClaim(w) ==
    \E i \in RowIds :
        /\ ReadyForProcessing(outbox[i])
        /\ MarkEventProcessing(i, w)

WorkerAckFailed(w) ==
    \E i \in RowIds :
        /\ outbox[i].status = "processing"
        /\ outbox[i].locked_by = w
        /\ mark_event_failed(i, max_attempts)
        /\ failed_acks' = [failed_acks EXCEPT ![i] = @ + 1]
        /\ UNCHANGED <<now, max_attempts, calls, db>>

NextDelivery ==
    \/ CreateOutboxEvent
    \/ DeliveryTick
    \/ \E w \in Workers : WorkerClaim(w)
    \/ \E w \in Workers : WorkerAckFailed(w)

SpecDelivery == InitDelivery /\ [][NextDelivery]_vars

\* One transaction: BEGIN; <statement>; COMMIT or ROLLBACK.  r is the outcome
\* of the statement on the current tables; an error aborts the transaction.
Transact(op, arg, r) ==
    /\ Len(r.outbox) <= MaxHookEvents
    /\ \E outcome \in {"COMMIT", "ROLLBACK"} :
          IF ~r.error /\ outcome = "COMMIT"
          THEN /\ db' = r.db
               /\ outbox' = r.outbox
               /\ ret' = [op |-> op, id |-> NULL, arg |-> arg, value |-> "COMMIT"]
          ELSE /\ db' = db
               /\ outbox' = outbox
               /\ ret' = [op |-> op, id |-> NULL, arg |-> arg,
                          value |-> IF r.error THEN "ERROR" ELSE "ROLLBACK"]
    /\ UNCHANGED <<now, failed_acks, max_attempts, calls>>

Tables == [db |-> db, outbox |-> outbox]

GroupMemberInsert(g, u) ==
    Transact("insert_group_member", <<HomeTenant, g, u>>,
             insert_group_member(Tables, HomeTenant, g, u))

GroupMemberSoftDelete(g, u) ==
    \E old \in db.group_member :
        /\ old.group_id = g /\ old.member_user_id = u /\ old.deleted_at = NullNum
        /\ Transact("soft_delete_group_member", <<HomeTenant, g, u>>,
                    soft_delete_group_member(Tables, old))

GroupMemberDelete(g, u) ==
    \E old \in db.group_member :
        /\ old.group_id = g /\ old.member_user_id = u
        /\ Transact("delete_group_member", <<HomeTenant, g, u>>,
                    delete_group_member(Tables, old))

ObjectPermissionsInsert(ps, o, p) ==
    Transact("insert_object_permissions", <<HomeTenant, ps, o>>,
             insert_object_permissions(Tables, HomeTenant, ps, o, p))

ObjectPermissionsUpdate(ps, o, p) ==
    \E old \in db.object_permissions :
        /\ old.permission_set_id = ps /\ old.object_id = o /\ old.permissions # p
        /\ Transact("update_object_permissions", <<HomeTenant, ps, o>>,
                    update_object_permissions(Tables, old, p))

ObjectPermissionsDelete(ps, o) ==
    \E old \in db.object_permissions :
        /\ old.permission_set_id = ps /\ old.object_id = o
        /\ Transact("delete_object_permissions", <<HomeTenant, ps, o>>,
                    delete_object_permissions(Tables, old))

FieldPermissionsInsert(ps, f, p) ==
    Transact("insert_field_permissions", <<HomeTenant, ps, f>>,
             insert_field_permissions(Tables, HomeTenant, ps, f, p))

\* now() advances (by one TTL unit).
CacheTick ==
    /\ now < MaxCacheTime
    /\ now' = now + 1
    /\ UNCHANGED <<outbox, ret, failed_acks, max_attempts, calls, db>>

InitCache ==
    /\ outbox = <<>>
    /\ now = 0
    /\ ret = [op |-> "none", id |-> NULL, arg |-> NULL, value |-> NULL]
    /\ failed_acks = [i \in Ids |-> 0]
    /\ max_attempts = DefaultMaxAttempts
    /\ calls = NoCalls
    /\ db = EmptyDb

\* Writers change memberships and grants; readers ask for permissions with
\* any tenant, user and object; operators invalidate; all in any order.
NextCache ==
    \/ CacheTick
    \/ \E g \in Groups, u \in Users : GroupMemberInsert(g, u)
    \/ \E g \in Groups, u \in Users : GroupMemberSoftDelete(g, u)
    \/ \E g \in Groups, u \in Users : GroupMemberDelete(g, u)
    \/ \E ps \in PermissionSets, o \in Objects, p \in GrantChoices : ObjectPermissionsInsert(ps, o, p)
    \/ \E ps \in PermissionSets, o \in Objects, p \in GrantChoices : ObjectPermissionsUpdate(ps, o, p)
    \/ \E ps \in PermissionSets, o \in Objects : ObjectPermissionsDelete(ps, o)
    \/ \E ps \in PermissionSets, f \in Fields, p \in GrantChoices : FieldPermissionsInsert(ps, f, p)
    \/ \E g \in Groups, o \in Objects, ttl \in TtlChoices : SyncGroupObjectPermissions(HomeTenant, g, o, ttl)
    \/ \E t \in Tenants, u \in Users, o \in Objects, ttl \in TtlChoices : GetObjectPermissions(t, u, o, ttl)
    \/ \E u \in Users, o \in Objects, f \in Fields, ttl \in TtlChoices :
          GetFieldPermissions(HomeTenant, u, o, f, ttl)
    \/ \E u \in Users, o \in Objects, r \in RowRefs, ttl \in TtlChoices :
          GetRowPermissions(HomeTenant, u, o, r, ttl)
    \/ \E u \in Users : InvalidateUserPermissionsCache(HomeTenant, u)
    \/ \E g \in Groups : InvalidateGroupPermissionsCache(HomeTenant, g)
    \/ \E o \in Objects : InvalidateObjectPermissionsCache(HomeTenant, o)

SpecCache == InitCache /\ [][NextCache]_vars

\* ------------------------------------------------------------------ claims

\* C1: every mark_event_processing call on a row that is pending and due
\* returns true, moves the row to processing, names the caller in locked_by
\* and increments attempt once; every other call returns false and changes
\* nothing.  So of several workers calling on the same pending row exactly
\* one wins.
C1_ExactlyOneClaim ==
    [][\A i \in Ids, w \in Workers :
          MarkEventProcessing(i, w) =>
              IF i \in RowIds /\ outbox[i].status = "pending" /\ outbox[i].next_attempt_at <= now
              THEN /\ ret'.value = TRUE
                   /\ outbox'[i].status = "processing"
                   /\ outbox'[i].locked_by = w
                   /\ outbox'[i].attempt = outbox[i].attempt + 1
                   /\ \A j \in RowIds \ {i} : outbox'[j] = outbox[j]
              ELSE /\ ret'.value = FALSE
                   /\ outbox' = outbox]_vars

\* C1 witness: a second worker has just called on a row that the first worker
\* claimed at this same instant, and lost.
C1_Witness ==
    /\ ret.op = "mark_event_processing"
    /\ ret.value = FALSE
    /\ ret.id \in RowIds
    /\ outbox[ret.id].status = "processing"
    /\ outbox[ret.id].locked_by \in Workers \ {ret.arg}
    /\ outbox[ret.id].locked_at = now
    /\ outbox[ret.id].attempt = 1

\* C2: under the delivery protocol with max_attempts = N, a row is dead exactly
\* when N failed deliveries have been acked: after each of the failures
\* 1..N-1 it is pending (or claimed again), and there is never an (N+1)-th.
C2_DeadOnNthFailure ==
    \A i \in RowIds :
        /\ failed_acks[i] <= max_attempts
        /\ outbox[i].status = "dead" <=> failed_acks[i] = max_attempts
        /\ outbox[i].status \in {"pending", "processing", "dead"}
        /\ outbox[i].status = "pending" /\ failed_acks[i] > 0
              => outbox[i].attempt = failed_acks[i]

\* C2 witness: a row that died on its third failure with max_attempts = 3.
C2_Witness ==
    \E i \in RowIds :
        /\ max_attempts = 3
        /\ outbox[i].status = "dead"
        /\ failed_acks[i] = 3

\* C3: the only status changes are pending->processing (claim),
\* processing->done (ack success), processing->pending (ack failure below
\* max_attempts) and processing->dead (ack failure at max_attempts); done and
\* dead are terminal.
C3_OnlyDocumentedTransitions ==
    [][\A i \in RowIds :
          LET a == outbox[i].status
              b == outbox'[i].status
          IN  a # b =>
                \/ a = "pending" /\ b = "processing" /\ ret'.op = "mark_event_processing"
                \/ a = "processing" /\ b = "done" /\ ret'.op = "mark_event_completed"
                \/ /\ a = "processing" /\ b = "pending" /\ ret'.op = "mark_event_failed"
                   /\ outbox[i].attempt < ret'.arg
                \/ /\ a = "processing" /\ b = "dead" /\ ret'.op = "mark_event_failed"
                   /\ outbox[i].attempt >= ret'.arg]_vars

\* The groups the user is an active (not soft-deleted) member of.
ActiveGroups(d, t, u) ==
    {gm.group_id : gm \in {x \in d.group_member :
        x.tenant_id = t /\ x.member_user_id = u /\ x.deleted_at = NullNum}}

\* The bitwise OR of the object_permissions bitmasks of the permission sets
\* bound to the groups the user is an active member of; 0 when there is none.
EffectiveObjectPermissions(d, t, u, o) ==
    COALESCE(bit_or({x.permissions : x \in {y \in d.object_permissions :
        /\ y.tenant_id = t /\ y.object_id = o
        /\ PermissionSetGroup[y.permission_set_id] \in ActiveGroups(d, t, u)}}), 0)

\* The rows a step appended to the outbox with one of the given event types.
Appended(types) ==
    {i \in DOMAIN outbox' \ DOMAIN outbox : outbox'[i].event_type \in types}

\* The cache entries of one user / for one object.
UserEntries(d, t, u) ==
    {e \in d.user_object_permissions \cup d.user_field_restrictions \cup d.user_row_permissions :
        e.tenant_id = t /\ e.user_id = u}
ObjectEntries(d, t, o) ==
    {e \in d.user_object_permissions \cup d.user_field_restrictions
           \cup d.user_row_permissions \cup d.group_object_permissions :
        e.tenant_id = t /\ e.object_id = o}

\* The tables with every cache table emptied.
WithoutCache(d) ==
    [d EXCEPT !.user_object_permissions = {}, !.user_field_restrictions = {},
              !.user_row_permissions = {}, !.group_object_permissions = {}]

\* C4: every get_object_permissions call returns the bitwise OR of the
\* ObjectPermission bitmasks of the permission sets bound to the groups the
\* principal is an active member of (so once P is a member of a group whose
\* permission sets grant 1 and 6 on the object, the next call returns 7).
C4_GetIsOrOfGrants ==
    [][\A t \in Tenants, u \in Users, o \in Objects, ttl \in TtlChoices :
          GetObjectPermissions(t, u, o, ttl) =>
              ret'.value = EffectiveObjectPermissions(db, t, u, o)]_vars

\* C5: for a principal that has no active membership or no grant on the
\* object (or whose ids exist in no table), get_object_permissions,
\* get_field_permissions and get_row_permissions return 0.
C5_ZeroWithoutGrant ==
    [][\A t \in Tenants, u \in Users, o \in Objects, ttl \in TtlChoices :
          (\/ GetObjectPermissions(t, u, o, ttl)
           \/ \E f \in Fields : GetFieldPermissions(t, u, o, f, ttl)
           \/ \E r \in RowRefs : GetRowPermissions(t, u, o, r, ttl))
          /\ EffectiveObjectPermissions(db, t, u, o) = 0
          => ret'.value = 0]_vars

\* C6: every committed insert, soft delete and hard delete of a user's
\* group_member row leaves no cache entry of that user and appends exactly
\* one iam.user_group_membership_changed event for that user; and a read that
\* follows a soft delete which left the user without active membership
\* returns 0.
C6_MembershipHookPurgesAndAppends ==
    [][\A g \in Groups, u \in Users :
          /\ (\/ GroupMemberInsert(g, u)
              \/ GroupMemberSoftDelete(g, u)
              \/ GroupMemberDelete(g, u))
             /\ ret'.value = "COMMIT"
             => /\ UserEntries(db', HomeTenant, u) = {}
                /\ Cardinality({i \in Appended({"iam.user_group_membership_changed"}) :
                                   outbox'[i].aggregate_id = u}) = 1
          /\ \A o \in Objects, ttl \in TtlChoices :
                /\ ret.op = "soft_delete_group_member" /\ ret.value = "COMMIT"
                /\ ret.arg = <<HomeTenant, g, u>>
                /\ ActiveGroups(db, HomeTenant, u) = {}
                /\ GetObjectPermissions(HomeTenant, u, o, ttl)
                => ret'.value = 0]_vars

\* C7: every insert, update and delete of an object_permissions row, and
\* every insert of a field_permissions row, that satisfies the table's own
\* constraints and is not rolled back by its caller commits, leaves no cache
\* entry for the affected object and appends exactly one *_changed event.
C7_GrantHookPurgesAndAppends ==
    [][/\ \A ps \in PermissionSets, o \in Objects, p \in GrantChoices :
             /\ (\/ /\ ObjectPermissionsInsert(ps, o, p)
                    /\ ~\E x \in db.object_permissions :
                           x.permission_set_id = ps /\ x.object_id = o
                 \/ ObjectPermissionsUpdate(ps, o, p)
                 \/ ObjectPermissionsDelete(ps, o))
             /\ ret'.value # "ROLLBACK"
             => /\ ret'.value = "COMMIT"
                /\ ObjectEntries(db', HomeTenant, o) = {}
                /\ Cardinality({i \in Appended({"iam.object_permissions_changed"}) :
                                   outbox'[i].aggregate_id = o}) = 1
       /\ \A ps \in PermissionSets, f \in Fields, p \in GrantChoices :
             FieldPermissionsInsert(ps, f, p) /\ ret'.value # "ROLLBACK"
             => /\ ret'.value = "COMMIT"
                /\ ObjectEntries(db', HomeTenant, FieldObject[f]) = {}
                /\ Cardinality({i \in Appended({"iam.field_permissions_changed"}) :
                                   outbox'[i].aggregate_id = FieldObject[f]}) = 1]_vars

\* The cache-invalidation event types.
InvalidationEventTypes ==
    {"iam.user_permissions_invalidated", "iam.group_permissions_invalidated",
     "iam.user_group_membership_changed", "iam.object_permissions_changed",
     "iam.field_permissions_changed"}

\* A write to group_member, object_permissions or field_permissions.
DomainWrite ==
    \/ \E g \in Groups, u \in Users :
          \/ GroupMemberInsert(g, u)
          \/ GroupMemberSoftDelete(g, u)
          \/ GroupMemberDelete(g, u)
    \/ \E ps \in PermissionSets, o \in Objects, p \in GrantChoices :
          \/ ObjectPermissionsInsert(ps, o, p)
          \/ ObjectPermissionsUpdate(ps, o, p)
          \/ ObjectPermissionsDelete(ps, o)
    \/ \E ps \in PermissionSets, f \in Fields, p \in GrantChoices : FieldPermissionsInsert(ps, f, p)

\* C8: a domain write appends an invalidation row to the outbox if and only
\* if it commits, and a write that does not commit changes neither the tables
\* nor the outbox.
C8_InvalidationRowIffCommitted ==
    [][DomainWrite =>
          /\ (ret'.value = "COMMIT") <=> (Appended(InvalidationEventTypes) # {})
          /\ ret'.value # "COMMIT" => db' = db /\ outbox' = outbox]_vars

\* C9: a get_object_permissions call that directly follows an
\* invalidate_user / invalidate_group / invalidate_object_permissions_cache
\* call covering its key finds no live cache entry and returns the value
\* computed from the current membership and grant rows.
C9_GetAfterInvalidateRecomputes ==
    [][\A u \in Users, o \in Objects, ttl \in TtlChoices :
          /\ \/ ret.op = "invalidate_user_permissions_cache" /\ ret.arg = <<HomeTenant, u>>
             \/ ret.op = "invalidate_object_permissions_cache" /\ ret.arg = <<HomeTenant, o>>
             \/ /\ ret.op = "invalidate_group_permissions_cache"
                /\ \E g \in ActiveGroups(db, HomeTenant, u) : ret.arg = <<HomeTenant, g>>
          /\ GetObjectPermissions(HomeTenant, u, o, ttl)
          => /\ LiveUserObject(db, HomeTenant, u, o) = {}
             /\ ret'.value = EffectiveObjectPermissions(db, HomeTenant, u, o)]_vars

\* C10: what get_object_permissions returns does not depend on the contents
\* of the cache tables: it is what the call returns on the same membership
\* and grant rows with every cache table empty.
C10_GetIgnoresCacheContents ==
    [][\A t \in Tenants, u \in Users, o \in Objects, ttl \in TtlChoices :
          GetObjectPermissions(t, u, o, ttl) =>
              ret'.value = get_object_permissions(WithoutCache(db), t, u, o, ttl).value]_vars

\* C11: when a grant for object o is added to a permission set of a group the
\* principal is an active member of (the insert commits and fires its hook),
\* get_object_permissions(principal, o) read after the insert has every bit
\* it had when read before it.
C11_GrantInsertKeepsBits ==
    [][\A ps \in PermissionSets, o \in Objects, p \in GrantChoices, u \in Users, ttl \in TtlChoices :
          /\ ObjectPermissionsInsert(ps, o, p)
          /\ ret'.value = "COMMIT"
          /\ PermissionSetGroup[ps] \in ActiveGroups(db, HomeTenant, u)
          => LET before == get_object_permissions(db, HomeTenant, u, o, ttl).value
                 after == get_object_permissions(db', HomeTenant, u, o, ttl).value
             IN  BitAnd(before, after) = before]_vars

\* --------------------------------------------- reads over populated caches
\* The cache tables are filled by the application with the INSERT statements
\* the table comments document; the functions only read, purge and sweep them.
MaxReadTime == 2
MaskChoices == {6, 7}
RestrictionChoices == {1}
FieldGrantChoices == {1}

\* A security.field_permissions row.
FieldPermissionRow(t, ps, f, p) ==
    [tenant_id |-> t, permission_set_id |-> ps, field_id |-> f, permissions |-> p]

\* INSERT INTO cache.group_object_permissions (tenant_id, group_id, object_id,
\* base_permissions, expires_at) VALUES (...): the primary key rejects a
\* second row of the same (tenant_id, group_id, object_id).
PutGroupObjectPermissions(t, g, o, p, ttl) ==
    LET conflict == \E e \in db.group_object_permissions :
                        e.tenant_id = t /\ e.group_id = g /\ e.object_id = o
    IN  /\ db' = IF conflict THEN db
                 ELSE [db EXCEPT !.group_object_permissions = @ \cup
                         {[tenant_id |-> t, group_id |-> g, object_id |-> o,
                           base_permissions |-> p, expires_at |-> now + ttl]}]
        /\ ret' = [op |-> "put_group_object_permissions", id |-> NULL, arg |-> <<t, g, o>>,
                   value |-> IF conflict THEN "ERROR" ELSE "OK"]
        /\ UNCHANGED <<outbox, now, failed_acks, max_attempts, calls>>

\* INSERT INTO cache.user_field_restrictions (tenant_id, user_id, object_id,
\* field_id, restriction, expires_at) VALUES (...)
PutUserFieldRestriction(t, u, o, f, r, ttl) ==
    LET conflict == \E e \in db.user_field_restrictions :
                        /\ e.tenant_id = t /\ e.user_id = u
                        /\ e.object_id = o /\ e.field_id = f
    IN  /\ db' = IF conflict THEN db
                 ELSE [db EXCEPT !.user_field_restrictions = @ \cup
                         {[tenant_id |-> t, user_id |-> u, object_id |-> o, field_id |-> f,
                           restriction |-> r, expires_at |-> now + ttl]}]
        /\ ret' = [op |-> "put_user_field_restriction", id |-> NULL, arg |-> <<t, u, o>>,
                   value |-> IF conflict THEN "ERROR" ELSE "OK"]
        /\ UNCHANGED <<outbox, now, failed_acks, max_attempts, calls>>

\* cache.cleanup_expired_permissions_cache: the deletes on the four
\* permission tables.
cleanup_expired_permissions_cache(d) ==
    [d EXCEPT
        !.user_object_permissions  = {e \in @ : ~(e.expires_at < now)},
        !.user_field_restrictions  = {e \in @ : ~(e.expires_at < now)},
        !.user_row_permissions     = {e \in @ : ~(e.expires_at < now)},
        !.group_object_permissions = {e \in @ : ~(e.expires_at < now)}]

\* SELECT cache.cleanup_expired_permissions_cache().  The function goes on to
\* delete from cache.user_cache, cache.role_cache and cache.group_cache, which
\* these migrations do not create: where they are missing the call raises and
\* leaves every table as it was.
CleanupExpiredPermissionsCache ==
    \E tables_exist \in BOOLEAN :
        /\ db' = IF tables_exist THEN cleanup_expired_permissions_cache(db) ELSE db
        /\ ret' = [op |-> "cleanup_expired_permissions_cache", id |-> NULL, arg |-> NULL,
                   value |-> IF tables_exist THEN "OK" ELSE "ERROR"]
        /\ UNCHANGED <<outbox, now, failed_acks, max_attempts, calls>>

\* cache.trigger_group_cache_invalidation
trigger_group_cache_invalidation(s, new) ==
    send_cache_invalidation_event(
        [s EXCEPT !.db = invalidate_group_permissions_cache(s.db, new.tenant_id, new.id)],
        new.tenant_id, "group", new.id, "iam.group_permissions_invalidated")

\* UPDATE cluster.group SET ... WHERE tenant_id = t AND id = g: the AFTER
\* UPDATE trigger trg_group_cache_invalidation.
update_group(s, t, g) ==
    trigger_group_cache_invalidation(s, [tenant_id |-> t, id |-> g])

GroupUpdate(g) ==
    Transact("update_group", <<HomeTenant, g>>, update_group(Tables, HomeTenant, g))

\* now() advances (by one TTL unit).
ReadTick ==
    /\ now < MaxReadTime
    /\ now' = now + 1
    /\ UNCHANGED <<outbox, ret, failed_acks, max_attempts, calls, db>>

\* The tables after the migrations; security.field_permissions may hold a row
\* written before the cache triggers were created on it.
InitRead ==
    /\ outbox = <<>>
    /\ now = 0
    /\ ret = [op |-> "none", id |-> NULL, arg |-> NULL, value |-> NULL]
    /\ failed_acks = [i \in Ids |-> 0]
    /\ max_attempts = DefaultMaxAttempts
    /\ calls = NoCalls
    /\ \E rows \in SUBSET {FieldPermissionRow(HomeTenant, "ps1", f, p) :
                              f \in Fields, p \in FieldGrantChoices} :
          db = [EmptyDb EXCEPT !.field_permissions = rows]

NextRead ==
    \/ ReadTick
    \/ \E g \in Groups, u \in Users : GroupMemberInsert(g, u)
    \/ \E g \in Groups, o \in Objects, p \in MaskChoices, ttl \in TtlChoices :
          PutGroupObjectPermissions(HomeTenant, g, o, p, ttl)
    \/ \E u \in Users, o \in Objects, f \in Fields, r \in RestrictionChoices, ttl \in TtlChoices :
          PutUserFieldRestriction(HomeTenant, u, o, f, r, ttl)
    \/ \E u \in Users, o \in Objects, ttl \in TtlChoices :
          GetObjectPermissions(HomeTenant, u, o, ttl)
    \/ \E u \in Users, o \in Objects, f \in Fields, ttl \in TtlChoices :
          GetFieldPermissions(HomeTenant, u, o, f, ttl)
    \/ \E u \in Users, o \in Objects, r \in RowRefs, ttl \in TtlChoices :
          GetRowPermissions(HomeTenant, u, o, r, ttl)
    \/ \E u \in Users : InvalidateUserPermissionsCache(HomeTenant, u)
    \/ \E g \in Groups : InvalidateGroupPermissionsCache(HomeTenant, g)
    \/ \E o \in Objects : InvalidateObjectPermissionsCache(HomeTenant, o)
    \/ CleanupExpiredPermissionsCache

SpecRead == InitRead /\ [][NextRead]_vars

\* The set of bits of a bitmask.
Bits(n) == {i \in 0..3 : (n \div (2 ^ i)) % 2 = 1}

\* C12: in every reachable state, for every principal, object and field, the
\* bitmask get_field_permissions returns is a subset of the bitmask
\* get_object_permissions returns for the same tenant, principal and object.
C12_FieldWithinObject ==
    \A u \in Users, o \in Objects, f \in Fields, ttl \in TtlChoices :
        Bits(get_field_permissions(db, HomeTenant, u, o, f, ttl).value)
            \subseteq Bits(get_object_permissions(db, HomeTenant, u, o, ttl).value)

\* C12 witness: a live restriction narrows a field read that has just
\* returned READ out of an object bitmask of 7.
C12_Witness ==
    /\ ret.op = "get_field_permissions"
    /\ ret.value = 1
    /\ \E u \in Users, o \in Objects :
          /\ ret.arg = <<HomeTenant, u, o>>
          /\ get_object_permissions(db, HomeTenant, u, o, 1).value = 7

\* C13: when the security.field_permissions grant on field f that a principal
\* reaches through an active group membership is 1 (READ only) and the
\* principal's object bitmask on the field's object is 7,
\* get_field_permissions(principal, object, f) returns 1.
C13_FieldGrantNarrowsRead ==
    \A u \in Users, f \in Fields, ps \in PermissionSets, ttl \in TtlChoices :
        /\ FieldPermissionRow(HomeTenant, ps, f, 1) \in db.field_permissions
        /\ PermissionSetGroup[ps] \in ActiveGroups(db, HomeTenant, u)
        /\ get_object_permissions(db, HomeTenant, u, FieldObject[f], ttl).value = 7
        => get_field_permissions(db, HomeTenant, u, FieldObject[f], f, ttl).value = 1

\* The cache rows of one (tenant, user, object) key in a table.
KeyEntries(table, t, u, o) ==
    {e \in table : e.tenant_id = t /\ e.user_id = u /\ e.object_id = o}

\* C14: whenever an invalidation function or an invalidation hook deletes the
\* user_object_permissions entry of a key (tenant, principal, object), no
\* field-restriction entry and no row-permission entry of that key is left.
C14_PurgeCoversUpperTiers ==
    [][\A u \in Users, o \in Objects :
          /\ \/ \E x \in Users : InvalidateUserPermissionsCache(HomeTenant, x)
             \/ \E g \in Groups : InvalidateGroupPermissionsCache(HomeTenant, g)
             \/ \E x \in Objects : InvalidateObjectPermissionsCache(HomeTenant, x)
             \/ \E g \in Groups, x \in Users : GroupMemberInsert(g, x)
          /\ KeyEntries(db.user_object_permissions, HomeTenant, u, o) # {}
          /\ KeyEntries(db'.user_object_permissions, HomeTenant, u, o) = {}
          => /\ KeyEntries(db'.user_field_restrictions, HomeTenant, u, o) = {}
             /\ KeyEntries(db'.user_row_permissions, HomeTenant, u, o) = {}]_vars

\* ------------------------------------------------------- the group purge
\* Groups are updated, members join, the group-level cache is filled and
\* principals read, in any order.
NextGroup ==
    \/ ReadTick
    \/ \E g \in Groups, u \in Users : GroupMemberInsert(g, u)
    \/ \E g \in Groups : GroupUpdate(g)
    \/ \E g \in Groups, o \in Objects, p \in MaskChoices, ttl \in TtlChoices :
          PutGroupObjectPermissions(HomeTenant, g, o, p, ttl)
    \/ \E u \in Users, o \in Objects, r \in RowRefs, ttl \in TtlChoices :
          GetRowPermissions(HomeTenant, u, o, r, ttl)
    \/ \E g \in Groups : InvalidateGroupPermissionsCache(HomeTenant, g)

SpecGroup == InitCache /\ [][NextGroup]_vars

\* C15: after cache.invalidate_group_permissions_cache(tenant, group) has run,
\* called directly or by the hook of a committed group update, there is no
\* group_object_permissions entry of that group and no
\* user_object_permissions entry of any principal that is currently an active
\* member of the group.
C15_GroupPurgeCascades ==
    [][\A g \in Groups :
          \/ GroupUpdate(g) /\ ret'.value = "COMMIT"
          \/ InvalidateGroupPermissionsCache(HomeTenant, g)
          => /\ ~\E e \in db'.group_object_permissions :
                    e.tenant_id = HomeTenant /\ e.group_id = g
             /\ \A u \in Users :
                   g \in ActiveGroups(db', HomeTenant, u)
                   => ~\E e \in db'.user_object_permissions :
                          e.tenant_id = HomeTenant /\ e.user_id = u]_vars

\* C15 witness: a group update has just committed for a group with an active
\* member whose reads had been cached; the row-level entry of the member is
\* still there, the object-level and group-level entries are gone.
C15_Witness ==
    /\ ret.op = "update_group"
    /\ ret.value = "COMMIT"
    /\ \E u \in Users, g \in Groups :
          /\ ret.arg = <<HomeTenant, g>>
          /\ g \in ActiveGroups(db, HomeTenant, u)
          /\ \E e \in db.user_row_permissions :
                e.user_id = u /\ e.permissions # 0 /\ e.expires_at > now
          /\ db.user_object_permissions = {}
          /\ db.group_object_permissions = {}

\* The cache tables without the entries whose expires_at is not later than now.
WithoutExpired(d) ==
    [d EXCEPT
        !.user_object_permissions  = {e \in @ : e.expires_at > now},
        !.user_field_restrictions  = {e \in @ : e.expires_at > now},
        !.user_row_permissions     = {e \in @ : e.expires_at > now},
        !.group_object_permissions = {e \in @ : e.expires_at > now}]

\* C17: in every reachable state each of the three reads returns what it
\* would return if every entry with expires_at <= now were absent (an expired
\* entry is a miss, swept or not), and what it would return right after
\* cache.cleanup_expired_permissions_cache (the sweep changes no result).
C17_ExpiredEntriesAreMisses ==
    \A d \in {WithoutExpired(db), cleanup_expired_permissions_cache(db)} :
        \A u \in Users, o \in Objects, ttl \in TtlChoices :
            /\ get_object_permissions(db, HomeTenant, u, o, ttl).value
                  = get_object_permissions(d, HomeTenant, u, o, ttl).value
            /\ \A f \in Fields :
                  get_field_permissions(db, HomeTenant, u, o, f, ttl).value
                     = get_field_permissions(d, HomeTenant, u, o, f, ttl).value
            /\ \A r \in RowRefs :
                  get_row_permissions(db, HomeTenant, u, o, r, ttl).value
                     = get_row_permissions(d, HomeTenant, u, o, r, ttl).value

\* C17 witness: a read has just returned 0 although the cache still holds the
\* caller's entry with a non-zero bitmask that expired at this very instant,
\* which the sweep has not removed.
C17_Witness ==
    /\ ret.op = "get_object_permissions"
    /\ ret.value = 0
    /\ \E e \in db.user_object_permissions :
          /\ ret.arg = <<e.tenant_id, e.user_id, e.object_id>>
          /\ e.base_permissions # 0
          /\ e.expires_at = now

\* ------------------------------------------------------ concurrent reads
\* cache.get_object_permissions run by a session next to other sessions: its
\* SELECTs see the rows committed when they run, and its INSERT ... ON CONFLICT
\* lands when the session's transaction commits.  BeginGetObjectPermissions
\* is the lookup and the computation, FinishGetObjectPermissions the write.
BeginGetObjectPermissions(c, t, u, o, ttl) ==
    /\ calls[c].pc = "idle"
    /\ LET hit == LiveUserObject(db, t, u, o)
           computed == COALESCE(bit_or({g.base_permissions :
                                           g \in MemberGroupPermissions(db, t, u, o)}), 0)
       IN  IF hit # {}
           THEN /\ ret' = [op |-> "get_object_permissions", id |-> NULL, arg |-> <<t, u, o>>,
                           value |-> (CHOOSE e \in hit : TRUE).base_permissions]
                /\ calls' = calls
           ELSE IF computed = 0
           THEN /\ ret' = [op |-> "get_object_permissions", id |-> NULL, arg |-> <<t, u, o>>,
                           value |-> 0]
                /\ calls' = calls
           ELSE /\ ret' = ret
                /\ calls' = [calls EXCEPT ![c] =
                               [pc |-> "computed", tenant_id |-> t, user_id |-> u,
                                object_id |-> o, computed_permissions |-> computed,
                                ttl |-> ttl]]
    /\ UNCHANGED <<outbox, now, failed_acks, max_attempts, db>>

FinishGetObjectPermissions(c) ==
    /\ calls[c].pc = "computed"
    /\ db' = UpsertUserObject(db, calls[c].tenant_id, calls[c].user_id, calls[c].object_id,
                              calls[c].computed_permissions, calls[c].ttl)
    /\ ret' = [op |-> "get_object_permissions", id |-> NULL,
               arg |-> <<calls[c].tenant_id, calls[c].user_id, calls[c].object_id>>,
               value |-> calls[c].computed_permissions]
    /\ calls' = [calls EXCEPT ![c] = [pc |-> "idle"]]
    /\ UNCHANGED <<outbox, now, failed_acks, max_attempts>>

\* Sessions read while memberships and grants change and the group-level
\* cache is refilled.
NextRace ==
    \/ \E g \in Groups, u \in Users : GroupMemberInsert(g, u)
    \/ \E g \in Groups, u \in Users : GroupMemberSoftDelete(g, u)
    \/ \E ps \in PermissionSets, o \in Objects, p \in GrantChoices : ObjectPermissionsInsert(ps, o, p)
    \/ \E g \in Groups, o \in Objects, ttl \in TtlChoices : SyncGroupObjectPermissions(HomeTenant, g, o, ttl)
    \/ \E c \in Sessions, u \in Users, o \in Objects, ttl \in TtlChoices :
          BeginGetObjectPermissions(c, HomeTenant, u, o, ttl)
    \/ \E c \in Sessions : FinishGetObjectPermissions(c)

SpecRace == InitCache /\ [][NextRace]_vars

\* C16: whenever no get_object_permissions call is in progress, the
\* user_object_permissions entry of every (tenant, principal, object) is
\* absent or holds the bitmask computed from the current memberships and
\* grants, whatever the interleaving of the calls with each other and with
\* committed membership and grant changes and their hooks.
C16_NoStaleEntryAfterRace ==
    (\A c \in Sessions : calls[c].pc = "idle")
    => \A u \in Users, o \in Objects :
          \A e \in KeyEntries(db.user_object_permissions, HomeTenant, u, o) :
              e.base_permissions = EffectiveObjectPermissions(db, HomeTenant, u, o)

\* --------------------------------------------------- the outbox workers
\* The worker loop of the outbox usage notes over two events of one aggregate:
\* poll the batch of pending events that are due, oldest first; mark an event
\* as processing; deliver it; mark it completed or failed.
MaxWorkerTime == 2
MaxClaims == 4
WorkerRowIds == {1, 2}

\* A timestamp seen one minute later through a clock window that stops
\* growing: what lies at the window's start stays there.
Earlier(t) == IF t = NullNum THEN NullNum ELSE IF t > 0 THEN t - 1 ELSE 0

\* now() advances by a minute.  Up to MaxWorkerTime the clock itself moves;
\* from there on the window slides: every timestamp that is compared with
\* now() moves one minute back instead, which keeps each comparison with now()
\* as it would be on the moving clock.  created_at only orders the rows.
WorkerTick ==
    /\ IF now < MaxWorkerTime
       THEN /\ now' = now + 1
            /\ outbox' = outbox
       ELSE /\ now' = now
            /\ outbox' = [i \in RowIds |->
                            [outbox[i] EXCEPT !.next_attempt_at = Earlier(@),
                                              !.locked_at = Earlier(@),
                                              !.published_at = Earlier(@)]]
    /\ UNCHANGED <<ret, failed_acks, max_attempts, calls, db>>

\* Two committed events of the same aggregate, the first created a minute
\* before the second; the workers agree on p_max_attempts.
InitWorkers ==
    /\ now = 1
    /\ outbox = <<[NewOutboxRow("user", "1", "iam.user.created", HomeTenant)
                      EXCEPT !.created_at = 0, !.next_attempt_at = 0],
                  [NewOutboxRow("user", "1", "iam.user.created", HomeTenant)
                      EXCEPT !.created_at = 1, !.next_attempt_at = 1]>>
    /\ ret = [op |-> "none", id |-> NULL, arg |-> NULL, value |-> NULL]
    /\ failed_acks = [i \in Ids |-> 0]
    /\ max_attempts \in 1..MaxAttemptsArg
    /\ calls = NoCalls
    /\ db = EmptyDb

\* The polled batch as a set of ids.
Batch == {get_events_ready_for_processing(DefaultLimit)[k] :
             k \in 1..Len(get_events_ready_for_processing(DefaultLimit))}

\* A worker polls and marks the oldest event of its batch as processing.
WorkerClaimOldest(w) ==
    /\ get_events_ready_for_processing(DefaultLimit) # <<>>
    /\ outbox[Head(get_events_ready_for_processing(DefaultLimit))].attempt < MaxClaims
    /\ mark_event_processing(Head(get_events_ready_for_processing(DefaultLimit)), w)
    /\ UNCHANGED <<now, failed_acks, max_attempts, calls, db>>

\* A worker polls and marks event i of its batch as processing.
WorkerClaimRow(w, i) ==
    /\ i \in Batch
    /\ outbox[i].attempt < MaxClaims
    /\ mark_event_processing(i, w)
    /\ UNCHANGED <<now, failed_acks, max_attempts, calls, db>>

\* The worker holding event i delivered it.
WorkerDelivered(w, i) ==
    /\ i \in RowIds
    /\ outbox[i].status = "processing"
    /\ outbox[i].locked_by = w
    /\ mark_event_completed(i)
    /\ UNCHANGED <<now, failed_acks, max_attempts, calls, db>>

\* The worker holding event i failed to deliver it.
WorkerFailed(w, i) ==
    /\ i \in RowIds
    /\ outbox[i].status = "processing"
    /\ outbox[i].locked_by = w
    /\ mark_event_failed(i, max_attempts)
    /\ UNCHANGED <<now, failed_acks, max_attempts, calls, db>>

\* Workers that always take the oldest event of the batch first.
NextOrder ==
    \/ WorkerTick
    \/ \E w \in Workers : WorkerClaimOldest(w)
    \/ \E w \in Workers, i \in WorkerRowIds : WorkerDelivered(w, i)
    \/ \E w \in Workers, i \in WorkerRowIds : WorkerFailed(w, i)

SpecOrder == InitWorkers /\ [][NextOrder]_vars

\* C18: of two outbox rows of the same aggregate (tenant, aggregate_type,
\* aggregate_id), the one created later is never done while the one created
\* earlier is not done yet, whatever the workers, failures and retries.
C18_DeliveredInCreationOrder ==
    \A i \in RowIds, j \in RowIds :
        /\ outbox[i].tenant_id = outbox[j].tenant_id
        /\ outbox[i].aggregate_type = outbox[j].aggregate_type
        /\ outbox[i].aggregate_id = outbox[j].aggregate_id
        /\ outbox[i].created_at < outbox[j].created_at
        /\ outbox[j].status = "done"
        => outbox[i].status = "done"

\* Workers that take any event of the batch, and keep going: time advances,
\* an event that is due is eventually claimed, and a worker that claimed an
\* event eventually acks it, as delivered or as failed.
WorkerAck(i) ==
    \E w \in Workers : WorkerDelivered(w, i) \/ WorkerFailed(w, i)

NextWorkers ==
    \/ WorkerTick
    \/ \E w \in Workers, i \in WorkerRowIds : WorkerClaimRow(w, i)
    \/ \E w \in Workers, i \in WorkerRowIds : WorkerDelivered(w, i)
    \/ \E w \in Workers, i \in WorkerRowIds : WorkerFailed(w, i)

SpecWorkers ==
    /\ InitWorkers
    /\ [][NextWorkers]_vars
    /\ WF_vars(WorkerTick)
    /\ \A i \in WorkerRowIds : WF_vars(\E w \in Workers : WorkerClaimRow(w, i))
    /\ \A i \in WorkerRowIds : WF_vars(WorkerAck(i))

\* C19: when time advances, workers keep polling and every worker that claimed
\* a row eventually acks it with the same max_attempts, every outbox row
\* eventually is done or dead and stays so: no row is retried forever.
C19_EveryRowTerminates ==
    <>[](\A i \in WorkerRowIds : outbox[i].status \in {"done", "dead"})

\* C19 witness: one row was delivered at its second attempt, the other is dead
\* after max_attempts = 3 failed deliveries.
C19_Witness ==
    /\ max_attempts = 3
    /\ \E i \in RowIds, j \in RowIds :
          /\ outbox[i].status = "done" /\ outbox[i].attempt = 2
          /\ outbox[j].status = "dead" /\ outbox[j].attempt = 3

\* C20: while a row is processing, get_events_ready_for_processing does not
\* return it, mark_event_processing on it returns false and changes nothing,
\* and every step that is not an ack of the row (mark_event_completed or
\* mark_event_failed on its id) leaves the row as it is, locked_by and
\* locked_at included, however old the lock is.
C20_ProcessingRowStaysLocked ==
    [][\A i \in RowIds :
          outbox[i].status = "processing"
          => /\ (/\ ret'.op = "get_events_ready_for_processing"
                 /\ \E w \in Workers : GetEventsReadyForProcessing(w))
                   => \A k \in DOMAIN ret'.value : ret'.value[k] # i
             /\ \A w \in Workers :
                   (ret'.op = "mark_event_processing" /\ MarkEventProcessing(i, w))
                   => ret'.value = FALSE /\ outbox' = outbox
             /\ ~(/\ ret'.op \in {"mark_event_completed", "mark_event_failed"}
                  /\ \/ MarkEventCompleted(i)
                     \/ \E n \in 1..MaxAttemptsArg : MarkEventFailed(i, n))
                   => outbox'[i] = outbox[i]]_vars

\* C20 witness: a worker has just been refused a row that another worker
\* locked earlier and has not acked since.
C20_Witness ==
    /\ ret.op = "mark_event_processing"
    /\ ret.value = FALSE
    /\ ret.id \in RowIds
    /\ outbox[ret.id].status = "processing"
    /\ outbox[ret.id].locked_by \in Workers \ {ret.arg}
    /\ outbox[ret.id].locked_at < now

\* C21: when a failure ack moves a row to dead, the row's next_attempt_at is
\* the one it had before the ack, and no later step changes the next_attempt_at
\* of a dead row.
C21_DeadRowKeepsNextAttempt ==
    [][\A i \in RowIds :
          /\ (\E w \in Workers : WorkerAckFailed(w))
             /\ outbox[i].status = "processing"
             /\ outbox'[i].status = "dead"
             => outbox'[i].next_attempt_at = outbox[i].next_attempt_at
          /\ outbox[i].status = "dead"
             => outbox'[i].next_attempt_at = outbox[i].next_attempt_at]_vars

\* C22: mark_event_failed(id, n) on a processing row whose attempt k is below
\* n makes the row pending, clears locked_by and locked_at and sets
\* next_attempt_at = now + 2k minutes; and while a pending row's
\* next_attempt_at is later than now, the poll does not return the row and
\* mark_event_processing on it returns false and changes nothing.
C22_FailedRowBacksOff ==
    [][\A i \in RowIds :
          /\ \A n \in 1..MaxAttemptsArg :
                /\ ret'.op = "mark_event_failed"
                /\ MarkEventFailed(i, n)
                /\ outbox[i].status = "processing"
                /\ outbox[i].attempt < n
                => outbox'[i] = [outbox[i] EXCEPT
                                    !.status = "pending",
                                    !.locked_by = NULL,
                                    !.locked_at = NullNum,
                                    !.next_attempt_at = now + 2 * outbox[i].attempt]
          /\ outbox[i].status = "pending" /\ outbox[i].next_attempt_at > now
                => /\ (/\ ret'.op = "get_events_ready_for_processing"
                       /\ \E w \in Workers : GetEventsReadyForProcessing(w))
                         => \A k \in DOMAIN ret'.value : ret'.value[k] # i
                   /\ \A w \in Workers :
                         (ret'.op = "mark_event_processing" /\ MarkEventProcessing(i, w))
                         => ret'.value = FALSE /\ outbox' = outbox]_vars

\* C22 witness: a worker has just been refused a row that failed once and is
\* pending with a next_attempt_at two minutes after the failure, still ahead.
C22_Witness ==
    /\ ret.op = "mark_event_processing"
    /\ ret.value = FALSE
    /\ ret.id \in RowIds
    /\ outbox[ret.id].status = "pending"
    /\ outbox[ret.id].attempt = 1
    /\ outbox[ret.id].locked_by = NULL
    /\ outbox[ret.id].next_attempt_at > now
    /\ now > 0

\* ------------------------------------------------------------ two tenants
RequiredChoices == {1, 3}

\* A faulty permission test: some required bit is enough.
HasPermissionMutantAnyBit(actual, required) == BitAnd(actual, required) > 0

\* RETURN (actual_permissions & p_required_permission) = p_required_permission
PermissionTest(actual, required) == BitAnd(actual, required) = required

\* cache.has_permission
has_permission(d, p_tenant_id, p_user_id, p_object_id, p_field_id, p_row_id, p_required_permission, p_ttl) ==
    LET actual ==
            IF p_row_id # NULL
            THEN get_row_permissions(d, p_tenant_id, p_user_id, p_object_id, p_row_id, p_ttl)
            ELSE IF p_field_id # NULL
            THEN get_field_permissions(d, p_tenant_id, p_user_id, p_object_id, p_field_id, p_ttl)
            ELSE get_object_permissions(d, p_tenant_id, p_user_id, p_object_id, p_ttl)
    IN  [value |-> PermissionTest(actual.value, p_required_permission), db |-> actual.db]

HasPermission(t, u, o, f, r, required, ttl) ==
    /\ LET res == has_permission(db, t, u, o, f, r, required, ttl)
       IN  /\ db' = res.db
           /\ ret' = [op |-> "has_permission", id |-> NULL,
                      arg |-> <<t, u, o, f, r, required>>, value |-> res.value]
    /\ UNCHANGED <<outbox, now, failed_acks, max_attempts, calls>>

\* cache.invalidate_tenant_cache
invalidate_tenant_cache(d, p_tenant_id) ==
    [d EXCEPT
        !.user_object_permissions  = {e \in @ : e.tenant_id # p_tenant_id},
        !.user_field_restrictions  = {e \in @ : e.tenant_id # p_tenant_id},
        !.user_row_permissions     = {e \in @ : e.tenant_id # p_tenant_id},
        !.group_object_permissions = {e \in @ : e.tenant_id # p_tenant_id}]

InvalidateTenantCache(t) ==
    /\ db' = invalidate_tenant_cache(db, t)
    /\ ret' = [op |-> "invalidate_tenant_cache", id |-> NULL, arg |-> <<t>>, value |-> NULL]
    /\ UNCHANGED <<outbox, now, failed_acks, max_attempts, calls>>

\* INSERT INTO cluster.group_member in a session of tenant t.
TenantGroupMemberInsert(t, g, u) ==
    Transact("insert_group_member", <<t, g, u>>, insert_group_member(Tables, t, g, u))

\* Two tenants whose users, groups and objects carry the same ids: members
\* join, the caches are filled, principals read and ask, operators purge.
NextTenants ==
    \/ \E t \in Tenants, g \in Groups, u \in Users : TenantGroupMemberInsert(t, g, u)
    \/ \E t \in Tenants, g \in Groups, o \in Objects, p \in MaskChoices, ttl \in TtlChoices :
          PutGroupObjectPermissions(t, g, o, p, ttl)
    \/ \E t \in Tenants, u \in Users, o \in Objects, f \in Fields,
          r \in RestrictionChoices, ttl \in TtlChoices :
          PutUserFieldRestriction(t, u, o, f, r, ttl)
    \/ \E t \in Tenants, u \in Users, o \in Objects, f \in Fields \cup {NULL},
          r \in RowRefs \cup {NULL}, required \in RequiredChoices, ttl \in TtlChoices :
          HasPermission(t, u, o, f, r, required, ttl)
    \/ \E t \in Tenants, u \in Users : InvalidateUserPermissionsCache(t, u)
    \/ \E t \in Tenants, g \in Groups : InvalidateGroupPermissionsCache(t, g)
    \/ \E t \in Tenants, o \in Objects : InvalidateObjectPermissionsCache(t, o)
    \/ \E t \in Tenants : InvalidateTenantCache(t)

SpecTenants == InitCache /\ [][NextTenants]_vars

\* The rows of one tenant in every table.
TenantRows(d, t) == [k \in DOMAIN d |-> {e \in d[k] : e.tenant_id = t}]

\* Result c of a call of tenant a, against result e of the same call on tables
\* without the rows of tenant b: tenant b's rows are as in d, and the value
\* and the rows left for tenant a are those of e.
Isolated(d, c, e, a, b) ==
    /\ TenantRows(c.db, b) = TenantRows(d, b)
    /\ c.value = e.value
    /\ TenantRows(c.db, a) = TenantRows(e.db, a)

\* A call that returns nothing.
Void(d) == [value |-> NULL, db |-> d]

\* C23: for distinct tenants a and b, every call made with tenant a (the three
\* reads, has_permission, the four invalidations) leaves every row of tenant b
\* as it was, and returns and writes for tenant a what the same call does on
\* tables holding no row of tenant b at all.
C23_TenantIsolation ==
    \A a \in Tenants, b \in Tenants :
        a # b
        => LET own == TenantRows(db, a)
           IN  \A u \in Users, o \in Objects, ttl \in TtlChoices :
                 /\ Isolated(db, get_object_permissions(db, a, u, o, ttl),
                             get_object_permissions(own, a, u, o, ttl), a, b)
                 /\ \A f \in Fields :
                       Isolated(db, get_field_permissions(db, a, u, o, f, ttl),
                                get_field_permissions(own, a, u, o, f, ttl), a, b)
                 /\ \A r \in RowRefs :
                       Isolated(db, get_row_permissions(db, a, u, o, r, ttl),
                                get_row_permissions(own, a, u, o, r, ttl), a, b)
                 /\ \A f \in Fields \cup {NULL}, r \in RowRefs \cup {NULL},
                       required \in RequiredChoices :
                       Isolated(db, has_permission(db, a, u, o, f, r, required, ttl),
                                has_permission(own, a, u, o, f, r, required, ttl), a, b)
                 /\ Isolated(db, Void(invalidate_user_permissions_cache(db, a, u)),
                             Void(invalidate_user_permissions_cache(own, a, u)), a, b)
                 /\ \A g \in Groups :
                       Isolated(db, Void(invalidate_group_permissions_cache(db, a, g)),
                                Void(invalidate_group_permissions_cache(own, a, g)), a, b)
                 /\ Isolated(db, Void(invalidate_object_permissions_cache(db, a, o)),
                             Void(invalidate_object_permissions_cache(own, a, o)), a, b)
                 /\ Isolated(db, Void(invalidate_tenant_cache(db, a)),
                             Void(invalidate_tenant_cache(own, a)), a, b)

\* C23 witness: has_permission for tenant t1 has just answered from t1's object
\* bitmask 6 while tenant t2 holds bitmask 7 for the same user, group and
\* object ids, in its group-level and in its user-level cache.
C23_Witness ==
    /\ ret.op = "has_permission"
    /\ ret.arg = <<"t1", "u1", "o1", NULL, NULL, 1>>
    /\ ret.value = FALSE
    /\ \E e \in db.user_object_permissions : e.tenant_id = "t1" /\ e.base_permissions = 6
    /\ \E e \in db.user_object_permissions : e.tenant_id = "t2" /\ e.base_permissions = 7
    /\ \E e \in db.group_object_permissions : e.tenant_id = "t2" /\ e.base_permissions = 7

\* ---------------------------------------------------------- nested groups
NestedGroups == {"g1", "g2"}

\* A cluster.group_member row whose member is a group.
GroupInGroupRow(t, g, mg) ==
    [tenant_id |-> t, record_id |-> "grp_" \o g \o "_" \o mg, group_id |-> g,
     member_user_id |-> NULL, member_group_id |-> mg, deleted_at |-> NullNum]

\* INSERT INTO cluster.group_member (group_id, member_group_id): the unique
\* index ux_group_member_group, then the AFTER INSERT triggers in name order.
insert_group_in_group(s, t, g, mg) ==
    LET new == GroupInGroupRow(t, g, mg)
    IN  IF new \in s.db.group_member
        THEN Raise(s)
        ELSE LET s1 == [s EXCEPT !.db.group_member = @ \cup {new}]
                 r1 == generate_group_member_added_event(s1, new)
             IN  IF r1.error THEN r1
                 ELSE trigger_group_member_cache_invalidation(After(r1), new)

GroupInGroupInsert(g, mg) ==
    Transact("insert_group_in_group", <<HomeTenant, g, mg>>,
             insert_group_in_group(Tables, HomeTenant, g, mg))

NestedUserInsert(g, u) ==
    Transact("insert_group_member", <<HomeTenant, g, u>>,
             insert_group_member(Tables, HomeTenant, g, u))

\* Users join groups, groups join groups (themselves and cycles included), the
\* group-level cache is filled, principals read.
NextNested ==
    \/ \E g \in NestedGroups, u \in Users : NestedUserInsert(g, u)
    \/ \E g \in NestedGroups, mg \in NestedGroups : GroupInGroupInsert(g, mg)
    \/ \E g \in NestedGroups, o \in Objects, p \in MaskChoices, ttl \in TtlChoices :
          PutGroupObjectPermissions(HomeTenant, g, o, p, ttl)
    \/ \E u \in Users, o \in Objects, ttl \in TtlChoices :
          GetObjectPermissions(HomeTenant, u, o, ttl)

SpecNested == InitCache /\ [][NextNested]_vars

\* The groups that have one of the groups S as an active member.
ParentGroups(d, t, S) ==
    {gm.group_id : gm \in {x \in d.group_member :
        /\ x.tenant_id = t /\ x.member_user_id = NULL /\ x.deleted_at = NullNum
        /\ x.member_group_id \in S}}

\* The groups reached from S through at most n group-in-group memberships.
RECURSIVE GroupClosure(_, _, _, _)
GroupClosure(d, t, S, n) ==
    IF n = 0 THEN S ELSE GroupClosure(d, t, S \cup ParentGroups(d, t, S), n - 1)

\* C24: when principal u is an active member of a group from which group g is
\* reached through active group-in-group memberships (any depth, cycles
\* allowed), a get_object_permissions read of u that finds no cached entry
\* includes every bit the group-level cache holds for g.
C24_NestedGroupsGrant ==
    \A u \in Users, o \in Objects, ttl \in TtlChoices :
        \A g \in GroupClosure(db, HomeTenant, ActiveGroups(db, HomeTenant, u),
                              Cardinality(NestedGroups)) :
            \A gop \in db.group_object_permissions :
                gop.tenant_id = HomeTenant /\ gop.group_id = g /\ gop.object_id = o
                /\ gop.expires_at > now
                => Bits(gop.base_permissions) \subseteq
                      Bits(get_object_permissions(
                               [db EXCEPT !.user_object_permissions = {}],
                               HomeTenant, u, o, ttl).value)


\* ------------------------------------------------------- manager hierarchy
\* iam."user" rows carry manager_id; the two traversals walk it upwards.
MaxChain == 12
HierarchyMaxLevels == 10
ManagerMaxLevels == 10
HierarchyUsers == 1 .. MaxChain

\* A row of iam."user": only the columns the traversals read.
UserRow(t, id, manager_id) ==
    [tenant_id |-> t, id |-> id, manager_id |-> manager_id]

\* The tables plus iam."user" holding one reporting line of n users: user i
\* reports to user i + 1, and user n has no manager.
HierarchyDb(n) ==
    [k \in DOMAIN EmptyDb \cup {"user"} |->
        IF k = "user"
        THEN {UserRow(HomeTenant, i, IF i < n THEN i + 1 ELSE NullNum) : i \in 1 .. n}
        ELSE {}]

\* SELECT u.manager_id INTO current_user_id FROM iam."user" u WHERE u.id = ...
\* AND u.tenant_id = current tenant: NULL when no row matches.
ManagerOf(d, t, id) ==
    LET rows == {u \in d.user : u.tenant_id = t /\ u.id = id}
    IN  IF rows = {} THEN NullNum ELSE (CHOOSE u \in rows : TRUE).manager_id

\* The WHILE loop of iam.get_user_hierarchy from current_level on: one row per
\* level while a user is left and the level is below max_levels.
RECURSIVE HierarchyLoop(_, _, _, _)
HierarchyLoop(d, t, current_user_id, current_level) ==
    IF current_user_id # NullNum /\ current_level < HierarchyMaxLevels
    THEN LET rows == {u \in d.user : u.tenant_id = t /\ u.id = current_user_id}
         IN  (IF rows = {} THEN <<>>
              ELSE << [level |-> current_level, user_id |-> current_user_id,
                       manager_id |-> ManagerOf(d, t, current_user_id)] >>)
             \o HierarchyLoop(d, t, ManagerOf(d, t, current_user_id),
                              current_level + 1)
    ELSE <<>>

\* iam.get_user_hierarchy(p_user_id): the rows the loop returns; the function
\* has no RAISE, so error is never set.
get_user_hierarchy(d, t, p_user_id) ==
    [error |-> FALSE, result |-> HierarchyLoop(d, t, p_user_id, 0)]

\* The WHILE loop of iam.is_manager_of from level_count on.
RECURSIVE ManagerLoop(_, _, _, _, _)
ManagerLoop(d, t, p_manager_id, current_user_id, level_count) ==
    IF current_user_id # NullNum /\ level_count < ManagerMaxLevels
    THEN IF current_user_id = p_manager_id
         THEN TRUE
         ELSE ManagerLoop(d, t, p_manager_id, ManagerOf(d, t, current_user_id),
                          level_count + 1)
    ELSE FALSE

\* iam.is_manager_of(p_manager_id, p_user_id): no RAISE either.
is_manager_of(d, t, p_manager_id, p_user_id) ==
    [error |-> FALSE,
     result |-> ManagerLoop(d, t, p_manager_id, p_user_id, 0)]

GetUserHierarchy(u) ==
    /\ ret' = [op |-> "get_user_hierarchy", id |-> NULL, arg |-> <<u>>,
               value |-> get_user_hierarchy(db, HomeTenant, u)]
    /\ UNCHANGED <<outbox, now, failed_acks, max_attempts, db, calls>>

IsManagerOf(m, u) ==
    /\ ret' = [op |-> "is_manager_of", id |-> NULL, arg |-> <<m, u>>,
               value |-> is_manager_of(db, HomeTenant, m, u)]
    /\ UNCHANGED <<outbox, now, failed_acks, max_attempts, db, calls>>

\* One reporting line of any length up to MaxChain, and no call made yet.
InitHierarchy ==
    /\ outbox = <<>>
    /\ now = 0
    /\ ret = [op |-> "none", id |-> NULL, arg |-> NULL, value |-> NULL]
    /\ failed_acks = [i \in Ids |-> 0]
    /\ max_attempts = DefaultMaxAttempts
    /\ calls = NoCalls
    /\ \E n \in 1 .. MaxChain : db = HierarchyDb(n)

NextHierarchy ==
    \/ \E u \in HierarchyUsers : GetUserHierarchy(u)
    \/ \E m \in HierarchyUsers, u \in HierarchyUsers : IsManagerOf(m, u)

SpecHierarchy == InitHierarchy /\ [][NextHierarchy]_vars

\* The users above u in the reporting line, u included, walked without a
\* bound on the depth (n bounds the recursion by the number of users).
RECURSIVE FullChain(_, _, _, _)
FullChain(d, t, u, n) ==
    IF u = NullNum \/ n = 0 \/ {x \in d.user : x.tenant_id = t /\ x.id = u} = {}
    THEN <<>>
    ELSE <<u>> \o FullChain(d, t, ManagerOf(d, t, u), n - 1)

\* C25: a traversal that reaches its depth bound of 10 levels before the top
\* of the chain surfaces an error: get_user_hierarchy from a user with more
\* than 10 levels above and including them, and is_manager_of that did not
\* meet the manager within the first 10 levels of such a chain, both report
\* an error and never a shortened chain or a false answer.
C25_BoundReachedIsAnError ==
    LET chain(u) == FullChain(db, HomeTenant, u, MaxChain + 1)
    IN  /\ (ret.op = "get_user_hierarchy"
              /\ Len(chain(ret.arg[1])) > HierarchyMaxLevels)
            => ret.value.error
        /\ (ret.op = "is_manager_of"
              /\ Len(chain(ret.arg[2])) > ManagerMaxLevels
              /\ \A i \in 1 .. ManagerMaxLevels :
                     chain(ret.arg[2])[i] # ret.arg[1])
            => ret.value.error


\* C26: in every reachable state, for every tenant user, object and row id,
\* cache.get_row_permissions returns the bitmask cache.get_object_permissions
\* returns when evaluated in that same state, also after memberships or
\* grants changed and after invalidations.
C26_RowEqualsObject ==
    \A u \in Users, o \in Objects, r \in RowRefs, ttl \in TtlChoices :
        get_row_permissions(db, HomeTenant, u, o, r, ttl).value
            = get_object_permissions(db, HomeTenant, u, o, ttl).value


\* C27: cache.has_permission returns true exactly when every required bit is
\* set in the actual bitmask, (actual & required) = required, where actual is
\* the row-level bitmask when a row id is given, otherwise the field-level
\* bitmask when a field id is given, otherwise the object-level bitmask.
C27_HasPermissionTest ==
    \A t \in Tenants, u \in Users, o \in Objects, f \in Fields \cup {NULL},
       r \in RowRefs \cup {NULL}, required \in RequiredChoices, ttl \in TtlChoices :
        LET actual ==
                IF r # NULL THEN get_row_permissions(db, t, u, o, r, ttl).value
                ELSE IF f # NULL THEN get_field_permissions(db, t, u, o, f, ttl).value
                ELSE get_object_permissions(db, t, u, o, ttl).value
        IN  has_permission(db, t, u, o, f, r, required, ttl).value
                <=> (Bits(required) \subseteq Bits(actual))

\* C27 witness: has_permission with field and row id both given has just
\* answered from the row-level bitmask 7 for the required bits 3, which the
\* field-level bitmask 1 of the same key does not hold; and the same request
\* without the row id is refused.
C27_Witness ==
    /\ ret.op = "has_permission"
    /\ ret.arg = <<"t1", "u1", "o1", "f1", "r1", 3>>
    /\ ret.value = TRUE
    /\ \E e \in db.user_row_permissions : e.tenant_id = "t1" /\ e.permissions = 7
    /\ \E ttl \in TtlChoices :
          /\ get_field_permissions(db, "t1", "u1", "o1", "f1", ttl).value = 1
          /\ ~has_permission(db, "t1", "u1", "o1", "f1", NULL, 3, ttl).value


\* ------------------------------------------------ bulk reads and group sync
BulkLimit == 100          \* array_length(p_user_ids, 1) > 100
ObjectBulkLimit == 100    \* at most 100 objects in a bulk request
SyncTtlSeconds == 3600    \* the TTL iam.sync_group_permissions passes
BulkUsers == {"u1", "u2"}

\* record_id of a user and of a group, api_name of an object.
UserRecordId(u) == "usr_" \o u
GroupRecordId(g) == "grp_" \o g
ObjectApiName(o) == "obj_" \o o

\* An SQL array argument: NULL, or the sequence of its elements.
NullArray == [null |-> TRUE, items |-> <<>>]
Arr(s) == [null |-> FALSE, items |-> s]
Elements(a) == {a.items[i] : i \in 1 .. Len(a.items)}

\* The tables plus iam."user", cluster."group" and security.object: two users
\* and a group in the home tenant, a group in the other tenant, one object.
\* The functions look groups up by record_id, a column 000003 does not
\* declare for cluster."group"; the model takes it to exist.
BulkDb ==
    [k \in DOMAIN EmptyDb \cup {"user", "group", "object"} |->
        CASE k = "user" ->
                 {[tenant_id |-> HomeTenant, id |-> u, record_id |-> UserRecordId(u)] :
                     u \in BulkUsers}
          [] k = "group" ->
                 {[tenant_id |-> HomeTenant, id |-> "g1", record_id |-> GroupRecordId("g1")],
                  [tenant_id |-> "t2", id |-> "g2", record_id |-> GroupRecordId("g2")]}
          [] k = "object" ->
                 {[tenant_id |-> HomeTenant, id |-> o, api_name |-> ObjectApiName(o)] :
                     o \in Objects}
          [] OTHER -> {}]

\* SELECT id INTO v_user_internal_id FROM iam."user"
\* WHERE tenant_id = p_tenant_id AND record_id = p_user_id
UserInternalId(d, t, record_id) ==
    LET rows == {u \in d.user : u.tenant_id = t /\ u.record_id = record_id}
    IN  IF rows = {} THEN NULL ELSE (CHOOSE u \in rows : TRUE).id

\* A faulty lookup that takes a group of any tenant.
GroupInternalIdMutantAnyTenant(d, t, record_id) ==
    LET rows == {g \in d.group : g.record_id = record_id}
    IN  IF rows = {} THEN NULL ELSE (CHOOSE g \in rows : TRUE).id

\* SELECT id INTO v_group_internal_id FROM cluster.group
\* WHERE tenant_id = p_tenant_id AND record_id = p_group_record_id
GroupInternalId(d, t, record_id) ==
    LET rows == {g \in d.group : g.tenant_id = t /\ g.record_id = record_id}
    IN  IF rows = {} THEN NULL ELSE (CHOOSE g \in rows : TRUE).id

\* One row of jsonb_agg over the selected security.object rows: the
\* cache.get_object_permissions call for object o on the tables in acc.
SnapshotObjectStep(acc, t, u, o, ttl) ==
    LET r == get_object_permissions(acc.db, t, u, o, ttl)
    IN  [acc EXCEPT !.permissions = @ \cup {[object_id |-> o, permissions |-> r.value]},
                    !.db = r.db]

\* The rows for the objects objs, one after the other.  (Here and below a
\* names the value of acc, so that it is computed once.)
RECURSIVE SnapshotObjects(_, _, _, _, _)
SnapshotObjects(acc, t, u, objs, ttl) ==
    CHOOSE res \in
        {IF objs = {} THEN a
         ELSE SnapshotObjects(SnapshotObjectStep(a, t, u, CHOOSE o \in objs : TRUE, ttl),
                              t, u, objs \ {CHOOSE o \in objs : TRUE}, ttl) :
         a \in {acc}} : TRUE

\* One row of jsonb_agg over security.object JOIN security.field: the
\* cache.get_field_permissions call for field f.
SnapshotFieldStep(acc, t, u, f, ttl) ==
    LET r == get_field_permissions(acc.db, t, u, FieldObject[f], f, ttl)
    IN  [acc EXCEPT !.field_permissions = @ \cup
                        {[object_id |-> FieldObject[f], field_id |-> f,
                          permissions |-> r.value]},
                    !.db = r.db]

RECURSIVE SnapshotFields(_, _, _, _, _)
SnapshotFields(acc, t, u, fields, ttl) ==
    CHOOSE res \in
        {IF fields = {} THEN a
         ELSE SnapshotFields(SnapshotFieldStep(a, t, u, CHOOSE f \in fields : TRUE, ttl),
                             t, u, fields \ {CHOOSE f \in fields : TRUE}, ttl) :
         a \in {acc}} : TRUE

\* iam.get_user_permissions_snapshot.  The group-membership section reads
\* columns of cluster."group" and cluster.group_member that 000003 does not
\* declare: with p_include_group_memberships it runs when columns_exist and
\* raises otherwise.  (p_include_permission_sources is left at its default.)
get_user_permissions_snapshot(d, p_tenant_id, p_user_id, p_object_api_names, p_include_group_memberships, columns_exist, p_ttl) ==
    LET v_user_internal_id == UserInternalId(d, p_tenant_id, p_user_id)
        objs == {so.id : so \in {x \in d.object :
                     /\ x.tenant_id = p_tenant_id
                     /\ \/ p_object_api_names.null
                        \/ x.api_name \in Elements(p_object_api_names)}}
        fields == IF p_object_api_names.null THEN {}
                  ELSE {f \in Fields : FieldObject[f] \in objs}
        v_group_memberships ==
            IF p_include_group_memberships
            THEN {gm.group_id : gm \in {x \in d.group_member :
                      /\ x.tenant_id = p_tenant_id
                      /\ x.member_user_id = v_user_internal_id
                      /\ x.deleted_at = NullNum}}
            ELSE {}
    IN  IF v_user_internal_id = NULL
        THEN [error |-> "User not found", value |-> NULL, db |-> d]
        ELSE IF p_include_group_memberships /\ ~columns_exist
        THEN [error |-> "undefined_column", value |-> NULL, db |-> d]
        ELSE CHOOSE res \in
                 {[error |-> NULL,
                   value |-> [user_id |-> p_user_id,
                              permissions |-> v.permissions,
                              field_permissions |-> v.field_permissions,
                              group_memberships |-> v_group_memberships],
                   db |-> v.db] :
                  v \in {SnapshotFields(
                             SnapshotObjects([permissions |-> {}, field_permissions |-> {},
                                              db |-> d],
                                             p_tenant_id, v_user_internal_id, objs, p_ttl),
                             p_tenant_id, v_user_internal_id, fields, p_ttl)}} : TRUE

\* A faulty handler that takes a failed iteration for a successful one.
CaughtMutantSwallows(res, d) == [ok |-> TRUE, db |-> d]

\* BEGIN ... EXCEPTION WHEN OTHERS THEN ... END around one iteration: an
\* error rolls the iteration's writes back to d and is caught.
Caught(res, d) ==
    IF res.error = NULL THEN [ok |-> TRUE, db |-> res.db]
    ELSE [ok |-> FALSE, db |-> d]

\* One iteration of FOREACH v_user_id IN ARRAY p_user_ids in
\* iam.sync_group_permissions, on the tables and counters in acc.
SyncStep(acc, t, v_user_id, names, p_force_refresh) ==
    IF v_user_id = NULL THEN acc
    ELSE CHOOSE res \in
             {IF Caught(snap, acc.db).ok
              THEN [db |-> Caught(snap, acc.db).db,
                    users_synced |-> acc.users_synced + 1,
                    failed_user_ids |-> acc.failed_user_ids]
              ELSE [db |-> Caught(snap, acc.db).db,
                    users_synced |-> acc.users_synced,
                    failed_user_ids |-> Append(acc.failed_user_ids, v_user_id)] :
              snap \in {get_user_permissions_snapshot(
                            IF p_force_refresh
                            THEN invalidate_user_permissions_cache(
                                     acc.db, t, UserInternalId(acc.db, t, v_user_id))
                            ELSE acc.db,
                            t, v_user_id, names, FALSE, TRUE, SyncTtlSeconds)}} : TRUE

\* The iterations for elements lo .. hi, in order.  (The range is halved so
\* that the evaluation stays shallow.)
RECURSIVE SyncLoop(_, _, _, _, _, _, _)
SyncLoop(acc, t, ids, lo, hi, names, p_force_refresh) ==
    CHOOSE r \in
        {IF lo > hi THEN a
         ELSE IF lo = hi THEN SyncStep(a, t, ids[lo], names, p_force_refresh)
         ELSE SyncLoop(SyncLoop(a, t, ids, lo, (lo + hi) \div 2, names, p_force_refresh),
                       t, ids, (lo + hi) \div 2 + 1, hi, names, p_force_refresh) :
         a \in {acc}} : TRUE

\* A set as an array, in some order.
RECURSIVE ArrayAgg(_)
ArrayAgg(S) ==
    IF S = {} THEN <<>>
    ELSE <<CHOOSE y \in S : TRUE>> \o ArrayAgg(S \ {CHOOSE y \in S : TRUE})

\* array_agg of the record ids of the group's active user members; NULL when
\* the group has none.
MemberRecordIds(d, t, g) ==
    LET members == {gm.member_user_id : gm \in {x \in d.group_member :
                        /\ x.tenant_id = t /\ x.group_id = g
                        /\ x.member_user_id # NULL /\ x.deleted_at = NullNum}}
        records == {u.record_id : u \in {x \in d.user :
                        x.tenant_id = t /\ x.id \in members}}
    IN  IF members = {} THEN NullArray ELSE Arr(ArrayAgg(records))

\* iam.sync_group_permissions
sync_group_permissions(d, p_tenant_id, p_group_record_id, p_user_ids, p_object_api_names, p_force_refresh) ==
    LET v_group_internal_id == GroupInternalId(d, p_tenant_id, p_group_record_id)
        failed(msg) == [error |-> msg, users_synced |-> 0, failed_user_ids |-> <<>>,
                        db |-> d]
    IN  IF v_group_internal_id = NULL THEN failed("Group not found")
        ELSE CHOOSE res \in
                 {IF user_ids.null THEN failed("FOREACH expression must not be null")
                  ELSE SyncLoop([db |-> d, users_synced |-> 0, failed_user_ids |-> <<>>],
                                p_tenant_id, user_ids.items, 1, Len(user_ids.items),
                                p_object_api_names, p_force_refresh)
                           @@ [error |-> NULL] :
                  user_ids \in {IF p_user_ids.null
                                THEN MemberRecordIds(d, p_tenant_id, v_group_internal_id)
                                ELSE p_user_ids}} : TRUE

SyncGroupPermissions(rid, ids, names, force) ==
    /\ \E res \in {sync_group_permissions(db, HomeTenant, rid, ids, names, force)} :
          /\ db' = res.db
          /\ ret' = [op |-> "sync_group_permissions", id |-> NULL,
                     arg |-> <<rid, ids, names, force>>,
                     value |-> [error |-> res.error,
                                users_synced |-> res.users_synced,
                                failed_user_ids |-> res.failed_user_ids]]
    /\ UNCHANGED <<outbox, now, failed_acks, max_attempts, calls>>

\* A faulty size test that turns a request of exactly the limit away.
ExceedsBulkLimitMutantOffByOne(n) == n >= BulkLimit

\* array_length(p_user_ids, 1) > 100, for an array of n elements
\* (array_length is NULL for an empty array, and the test is not taken).
ExceedsBulkLimit(n) == n > BulkLimit

\* One iteration of FOREACH v_user_id IN ARRAY p_user_ids in
\* iam.get_bulk_user_permissions, on the tables and lists in acc.
BulkStep(acc, t, v_user_id, names, include, columns_exist, ttl) ==
    CHOOSE res \in
        {IF Caught(snap, acc.db).ok
         THEN [db |-> Caught(snap, acc.db).db,
               snapshots |-> Append(acc.snapshots, snap.value),
               failed_user_ids |-> acc.failed_user_ids]
         ELSE [db |-> Caught(snap, acc.db).db,
               snapshots |-> acc.snapshots,
               failed_user_ids |-> Append(acc.failed_user_ids, v_user_id)] :
         snap \in {get_user_permissions_snapshot(acc.db, t, v_user_id, names, include,
                                                 columns_exist, ttl)}} : TRUE

\* The iterations for elements lo .. hi, in order.
RECURSIVE BulkLoop(_, _, _, _, _, _, _, _, _)
BulkLoop(acc, t, ids, lo, hi, names, include, columns_exist, ttl) ==
    CHOOSE r \in
        {IF lo > hi THEN a
         ELSE IF lo = hi THEN BulkStep(a, t, ids[lo], names, include, columns_exist, ttl)
         ELSE BulkLoop(BulkLoop(a, t, ids, lo, (lo + hi) \div 2, names, include,
                                columns_exist, ttl),
                       t, ids, (lo + hi) \div 2 + 1, hi, names, include,
                       columns_exist, ttl) :
         a \in {acc}} : TRUE

\* iam.get_bulk_user_permissions
get_bulk_user_permissions(d, p_tenant_id, p_user_ids, p_object_api_names, p_include_group_memberships, columns_exist, p_ttl) ==
    LET failed(msg) == [error |-> msg, snapshots |-> <<>>, failed_user_ids |-> <<>>,
                        db |-> d]
    IN  IF ~p_user_ids.null /\ ExceedsBulkLimit(Len(p_user_ids.items))
        THEN failed("Maximum 100 users allowed in bulk request")
        ELSE IF p_user_ids.null THEN failed("FOREACH expression must not be null")
        ELSE BulkLoop([db |-> d, snapshots |-> <<>>, failed_user_ids |-> <<>>],
                      p_tenant_id, p_user_ids.items, 1, Len(p_user_ids.items),
                      p_object_api_names, p_include_group_memberships, columns_exist,
                      p_ttl) @@ [error |-> NULL]

GetBulkUserPermissions(ids, names, include, columns_exist, ttl) ==
    /\ \E res \in {get_bulk_user_permissions(db, HomeTenant, ids, names, include,
                                             columns_exist, ttl)} :
          /\ db' = res.db
          /\ ret' = [op |-> "get_bulk_user_permissions", id |-> NULL,
                     arg |-> <<ids, names, include, columns_exist>>,
                     value |-> [error |-> res.error, snapshots |-> res.snapshots,
                                failed_user_ids |-> res.failed_user_ids]]
    /\ UNCHANGED <<outbox, now, failed_acks, max_attempts, calls>>

\* One per-object read of GetBulkObjectPermissions: the object-level bitmask
\* of the named object, zero for an unknown name.
BulkObjectStep(acc, t, u, name, ttl) ==
    CHOOSE res \in
        {[db |-> r.db,
          permissions |-> Append(acc.permissions,
                                 [object_api_name |-> name, permissions |-> r.value])] :
         r \in {IF {x \in acc.db.object : x.tenant_id = t /\ x.api_name = name} = {}
                THEN [value |-> 0, db |-> acc.db]
                ELSE get_object_permissions(
                         acc.db, t, u,
                         (CHOOSE x \in acc.db.object :
                              x.tenant_id = t /\ x.api_name = name).id, ttl)}} : TRUE

\* The reads for names lo .. hi, in order.
RECURSIVE BulkObjectLoop(_, _, _, _, _, _, _)
BulkObjectLoop(acc, t, u, names, lo, hi, ttl) ==
    CHOOSE r \in
        {IF lo > hi THEN a
         ELSE IF lo = hi THEN BulkObjectStep(a, t, u, names[lo], ttl)
         ELSE BulkObjectLoop(BulkObjectLoop(a, t, u, names, lo, (lo + hi) \div 2, ttl),
                             t, u, names, (lo + hi) \div 2 + 1, hi, ttl) :
         a \in {acc}} : TRUE

\* GetBulkObjectPermissions(tenant, principal, object[] (<= 100)): more than
\* the limit is InvalidInput before anything is read.
get_bulk_object_permissions(d, t, u, names, ttl) ==
    IF Len(names) > ObjectBulkLimit
    THEN [error |-> "InvalidInput", permissions |-> <<>>, db |-> d]
    ELSE BulkObjectLoop([db |-> d, permissions |-> <<>>], t, u, names, 1, Len(names), ttl)
             @@ [error |-> NULL]

GetBulkObjectPermissions(u, names, ttl) ==
    /\ \E res \in {get_bulk_object_permissions(db, HomeTenant, u, names, ttl)} :
          /\ db' = res.db
          /\ ret' = [op |-> "get_bulk_object_permissions", id |-> NULL,
                     arg |-> <<u, names>>,
                     value |-> [error |-> res.error, permissions |-> res.permissions]]
    /\ UNCHANGED <<outbox, now, failed_acks, max_attempts, calls>>

\* The arrays of user record ids callers pass: known and unknown ids and NULL
\* elements in short arrays, and arrays of exactly and one more than the limit.
UnknownUser == "usr_x"
Repeated(x, n) == [i \in 1 .. n |-> x]
ShortUserIdArrays ==
    {Arr(s) : s \in {<<>>, <<"usr_u1">>, <<UnknownUser>>, <<UnknownUser, "usr_u1">>,
                     <<"usr_u1", UnknownUser, "usr_u2">>, <<NULL, "usr_u2">>}}
LimitUserIdArrays ==
    {Arr(Repeated("usr_u1", BulkLimit)),
     Arr(<<UnknownUser>> \o Repeated("usr_u1", BulkLimit))}
ObjectNameArrays == {NullArray, Arr(<<"obj_o1">>), Arr(<<"obj_none">>)}
LimitObjectNames ==
    {Repeated("obj_o1", ObjectBulkLimit), <<"obj_none">> \o Repeated("obj_o1", ObjectBulkLimit)}
GroupRecordIds == {"grp_g1", "grp_g2", "grp_none"}
ShortObjectNames == {<<>>, <<"obj_o1">>, <<"obj_none", "obj_o1">>}
BulkGrants == {6}

InitBulk ==
    /\ outbox = <<>>
    /\ now = 0
    /\ ret = [op |-> "none", id |-> NULL, arg |-> NULL, value |-> NULL]
    /\ failed_acks = [i \in Ids |-> 0]
    /\ max_attempts = DefaultMaxAttempts
    /\ calls = NoCalls
    /\ db = BulkDb

\* Users join the group, the group-level cache is filled, and callers sync
\* the group and read in bulk, in any order.
NextBulk ==
    \/ \E g \in Groups, u \in BulkUsers : TenantGroupMemberInsert(HomeTenant, g, u)
    \/ \E g \in Groups, o \in Objects, p \in BulkGrants, ttl \in TtlChoices :
          PutGroupObjectPermissions(HomeTenant, g, o, p, ttl)
    \/ \E rid \in GroupRecordIds, ids \in ShortUserIdArrays \cup {NullArray},
          names \in ObjectNameArrays, force \in BOOLEAN :
          SyncGroupPermissions(rid, ids, names, force)
    \/ \E ids \in ShortUserIdArrays \cup {NullArray}, names \in ObjectNameArrays,
          include \in BOOLEAN, columns_exist \in BOOLEAN, ttl \in TtlChoices :
          GetBulkUserPermissions(ids, names, include, columns_exist, ttl)
    \/ \E ids \in LimitUserIdArrays, ttl \in TtlChoices :
          GetBulkUserPermissions(ids, Arr(<<"obj_o1">>), FALSE, TRUE, ttl)
    \/ \E u \in BulkUsers, names \in ShortObjectNames, ttl \in TtlChoices :
          GetBulkObjectPermissions(u, names, ttl)
    \/ \E names \in LimitObjectNames, ttl \in TtlChoices :
          GetBulkObjectPermissions("u1", names, ttl)

SpecBulk == InitBulk /\ [][NextBulk]_vars


NilError == [type |-> "nil", is |-> "none", code |-> "none"]

errors_New(text) == [type |-> "errorString", is |-> text, code |-> "none"]

PgError(code) == [type |-> "PgError", is |-> "none", code |-> code]

DomainError(code) == [type |-> "DomainError", is |-> "none", code |-> code]

Errorf(sentinel, de) == [type |-> "wrapError", is |-> sentinel.is, code |-> de.code]

ErrAlreadyExists == errors_New("already exists")

ErrNotFound == errors_New("not found")

ErrInvalid == errors_New("invalid input")

ErrRetryable == errors_New("retryable")

\* errors.Is(err, target) for a sentinel target
errors_Is(err, target) ==
    /\ err.type \in {"errorString", "wrapError"}
    /\ err.is = target.is

\* A faulty switch that files 22023 under "not found".
BuildMutantMisfiled(err) ==
    IF err.type = "nil" THEN NilError
    ELSE IF err.type # "PgError" THEN err
    ELSE IF err.code = "23505" THEN Errorf(ErrAlreadyExists, DomainError(err.code))
    ELSE IF err.code \in {"23503", "23514", "23502", "22P02"}
         THEN Errorf(ErrInvalid, DomainError(err.code))
    ELSE IF err.code \in {"42P01", "42703", "22023"}
         THEN Errorf(ErrNotFound, DomainError(err.code))
    ELSE IF err.code \in {"40P01", "40001"}
         THEN Errorf(ErrRetryable, DomainError(err.code))
    ELSE DomainError(err.code)

\* DatabaseErrorBuilder.Build(ctx, err, msg); ctx and msg are not used.
Build(err) ==
    IF err.type = "nil" THEN NilError
    ELSE IF err.type # "PgError" THEN err
    ELSE IF err.code = "23505" THEN Errorf(ErrAlreadyExists, DomainError(err.code))
    ELSE IF err.code \in {"23503", "23514", "23502", "22P02", "22023"}
         THEN Errorf(ErrInvalid, DomainError(err.code))
    ELSE IF err.code \in {"42P01", "42703"}
         THEN Errorf(ErrNotFound, DomainError(err.code))
    ELSE IF err.code \in {"40P01", "40001"}
         THEN Errorf(ErrRetryable, DomainError(err.code))
    ELSE DomainError(err.code)

\* The kind a caller reads off a built error with errors.Is / errors.As.
Kinds(err) ==
    {k \in {"AlreadyExists", "NotFound", "InvalidInput", "Retryable", "Unclassified"} :
        \/ k = "AlreadyExists" /\ errors_Is(err, ErrAlreadyExists)
        \/ k = "NotFound" /\ errors_Is(err, ErrNotFound)
        \/ k = "InvalidInput" /\ errors_Is(err, ErrInvalid)
        \/ k = "Retryable" /\ errors_Is(err, ErrRetryable)
        \/ k = "Unclassified" /\ err.type = "DomainError"}

\* The SQLSTATEs of the switch, and three it does not list: a RAISE EXCEPTION
\* (P0001), an exclusion violation (23P01) and a lock timeout (55P03).
PgCodes ==
    {"23505", "23503", "23514", "23502", "22P02", "22023", "42P01", "42703",
     "40P01", "40001", "P0001", "23P01", "55P03"}

\* What a delivery attempt can return: success, a store error, or an error
\* that is not a store error (a broker timeout).
DeliveryErrors ==
    {NilError, errors_New("broker timeout")} \cup {PgError(c) : c \in PgCodes}

\* A worker that holds a row delivers it and classifies the outcome.
Deliver(w) ==
    \E i \in RowIds, err \in DeliveryErrors :
        /\ outbox[i].status = "processing"
        /\ outbox[i].locked_by = w
        /\ ret.op # "Build"
        /\ ret' = [op |-> "Build", id |-> i, arg |-> err, value |-> Build(err)]
        /\ UNCHANGED <<outbox, now, failed_acks, max_attempts, calls, db>>

\* The ack of a delivery without error.
AckCompleted ==
    /\ ret.op = "Build"
    /\ ret.value = NilError
    /\ MarkEventCompleted(ret.id)

\* The ack of a failed delivery: mark_event_failed has no parameter for the
\* error or its kind.
AckFailed ==
    /\ ret.op = "Build"
    /\ ret.value # NilError
    /\ MarkEventFailed(ret.id, max_attempts)

NextErrors ==
    \/ CreateOutboxEvent
    \/ Tick
    \/ \E w \in Workers : WorkerClaim(w)
    \/ \E w \in Workers : Deliver(w)
    \/ AckCompleted
    \/ AckFailed

SpecErrors == InitDelivery /\ [][NextErrors]_vars

\* C31: a failure ack for an error that is neither Retryable nor a transient
\* delivery failure (its kind is AlreadyExists, NotFound, InvalidInput or
\* Unclassified) moves the row to dead, whatever its attempt count.
C31_OtherKindsDeadLetter ==
    [][(ret.op = "Build" /\ ret'.op = "mark_event_failed"
            /\ Kinds(ret.value) \cap {"AlreadyExists", "NotFound", "InvalidInput", "Unclassified"} # {})
        => outbox'[ret.id].status = "dead"]_vars

\* C32: Build maps nil to nil, returns an error that is not a store error
\* unchanged, and gives every store error exactly one kind: 23505
\* AlreadyExists; 23503, 23514, 23502, 22P02, 22023 InvalidInput; 42P01,
\* 42703 NotFound; 40P01, 40001 Retryable; any other code Unclassified.
C32_BuildClassifies ==
    ret.op = "Build" =>
        IF ret.arg.type = "nil" THEN ret.value = NilError
        ELSE IF ret.arg.type # "PgError" THEN ret.value = ret.arg
        ELSE /\ ret.value.code = ret.arg.code
             /\ Kinds(ret.value) =
                  {CASE ret.arg.code = "23505" -> "AlreadyExists"
                     [] ret.arg.code \in {"23503", "23514", "23502", "22P02", "22023"} -> "InvalidInput"
                     [] ret.arg.code \in {"42P01", "42703"} -> "NotFound"
                     [] ret.arg.code \in {"40P01", "40001"} -> "Retryable"
                     [] OTHER -> "Unclassified"}

C32_Witness ==
    /\ ret.op = "Build"
    /\ ret.arg = PgError("22023")
    /\ Kinds(ret.value) = {"InvalidInput"}

\* The active memberships of member u in group g of tenant t.
ActiveMemberships(d, t, g, u) ==
    {x \in d.group_member :
        /\ x.tenant_id = t /\ x.group_id = g /\ x.member_user_id = u
        /\ x.deleted_at = NullNum}

\* The soft-deleted memberships of member u in group g of tenant t.
DeletedMemberships(d, t, g, u) ==
    {x \in d.group_member :
        /\ x.tenant_id = t /\ x.group_id = g /\ x.member_user_id = u
        /\ x.deleted_at # NullNum}

\* C33: after any inserts and soft deletes there is at most one active
\* membership per (tenant, group, member), and the uniqueness binds only the
\* active rows: inserting a member whose only memberships of the group are
\* soft-deleted is not rejected.
C33_UniqueAmongActiveOnly ==
    [][ret'.op = "insert_group_member" =>
         /\ \A x, y \in db'.group_member :
               (/\ x.tenant_id = y.tenant_id /\ x.group_id = y.group_id
                /\ x.member_user_id = y.member_user_id
                /\ x.deleted_at = NullNum /\ y.deleted_at = NullNum) => x = y
         /\ (/\ ActiveMemberships(db, ret'.arg[1], ret'.arg[2], ret'.arg[3]) = {}
             /\ DeletedMemberships(db, ret'.arg[1], ret'.arg[2], ret'.arg[3]) # {})
            => ret'.value # "ERROR"]_vars

\* ------------------------------------------------ acks with one max_attempts
\* Any caller may call any outbox function on any id in any order; every
\* failure ack passes the same p_max_attempts.
MarkEventFailedSameMax(p_id) == MarkEventFailed(p_id, max_attempts)

NextSameMax ==
    \/ CreateOutboxEvent
    \/ Tick
    \/ \E i \in Ids, w \in Workers : MarkEventProcessing(i, w)
    \/ \E i \in Ids : MarkEventCompleted(i)
    \/ \E i \in Ids : MarkEventFailedSameMax(i)

SpecSameMax == InitDelivery /\ [][NextSameMax]_vars

\* C34: an ack (mark_event_completed or mark_event_failed) of a row that is
\* not processing, so that no worker holds its lock (the row is pending, done
\* or dead), leaves the row as it is.
C34_AckWithoutLockIsNoOp ==
    [][(/\ ret'.op \in {"mark_event_completed", "mark_event_failed"}
        /\ ret'.id \in RowIds
        /\ outbox[ret'.id].status # "processing")
       => outbox'[ret'.id] = outbox[ret'.id]]_vars

\* C35: in every reachable state a row has locked_by and locked_at set if and
\* only if its status is processing; pending, done and dead rows hold no lock.
C35_LockedIffProcessing ==
    \A i \in RowIds :
        /\ outbox[i].locked_by # NULL <=> outbox[i].status = "processing"
        /\ outbox[i].locked_at # NullNum <=> outbox[i].status = "processing"

\* C35 witness: a row that was locked and delivered is done and holds no lock,
\* after a failed first attempt had sent it back to pending.
C35_Witness ==
    \E i \in RowIds :
        /\ outbox[i].status = "done"
        /\ outbox[i].attempt = 2
        /\ outbox[i].locked_by = NULL
        /\ outbox[i].locked_at = NullNum

\* C36: with one max_attempts = N for all acks, every row has 0 <= attempt <= N
\* in every state, a new row is pending with attempt 0, and attempt counts the
\* successful mark_event_processing calls on the row: it goes up by one in a
\* step that is a successful claim of the row (the call returns true and the
\* table changes) and stays as it is in every other step.
C36_AttemptCountsClaims ==
    [][/\ \A i \in DOMAIN outbox' :
             /\ 0 <= outbox'[i].attempt
             /\ outbox'[i].attempt <= max_attempts
       /\ \A i \in DOMAIN outbox' \ RowIds :
             outbox'[i].status = "pending" /\ outbox'[i].attempt = 0
       /\ \A i \in RowIds :
             outbox'[i].attempt =
                 IF /\ ret'.op = "mark_event_processing" /\ ret'.id = i
                    /\ ret'.value = TRUE /\ outbox' # outbox
                 THEN outbox[i].attempt + 1
                 ELSE outbox[i].attempt]_vars

\* C36 witness: a row has been claimed max_attempts = 2 times and is dead.
C36_Witness ==
    \E i \in RowIds :
        /\ max_attempts = 2
        /\ outbox[i].attempt = 2
        /\ outbox[i].status = "dead"

\* C37: a cache.get_object_permissions call that misses leaves exactly one
\* entry for the key in user_object_permissions, holding the value it returns
\* (0 included) and expires_at = now + ttl, so that the next read of the key
\* is a hit.
C37_MissWritesThrough ==
    [][(/\ ret'.op = "get_object_permissions"
        /\ now' = now
        /\ LiveUserObject(db, ret'.arg[1], ret'.arg[2], ret'.arg[3]) = {})
       => \E e \in db'.user_object_permissions :
             /\ e.tenant_id = ret'.arg[1] /\ e.user_id = ret'.arg[2]
             /\ e.object_id = ret'.arg[3]
             /\ e.base_permissions = ret'.value
             /\ \E ttl \in TtlChoices : e.expires_at = now + ttl
             /\ \A x \in db'.user_object_permissions :
                   (/\ x.tenant_id = e.tenant_id /\ x.user_id = e.user_id
                    /\ x.object_id = e.object_id) => x = e]_vars

\* ------------------------------------------------ permission sync events
MaxSourceEvents == 2   \* membership and assignment events the outbox may hold

\* An outbox row with its payload column.
PayloadRow(aggregate_type, aggregate_id, event_type, tenant, payload) ==
    [payload |-> payload] @@ NewOutboxRow(aggregate_type, aggregate_id, event_type, tenant)

\* payload->>key: NULL when the object has no such key.
PayloadText(payload, key) ==
    IF key \in DOMAIN payload THEN payload[key] ELSE NULL

\* array || element; a NULL array counts as empty.
ArrayAppend(a, x) == Arr(Append(a.items, x))

\* The rows the FOR loop of iam.process_permission_sync_events selects.
SyncEventIds(ob) ==
    {i \in DOMAIN ob :
        /\ ob[i].event_type \in {"iam.group_member.added", "iam.group_member.removed",
                                 "iam.permission_set.assigned_to_group",
                                 "iam.permission_set.unassigned_from_group"}
        /\ ob[i].status = "processing"}

\* The orders the loop may take the rows in (the SELECT has no ORDER BY).
SyncOrders(ob) ==
    {o \in [1 .. Cardinality(SyncEventIds(ob)) -> SyncEventIds(ob)] :
        \A a, b \in DOMAIN o : o[a] = o[b] => a = b}

\* One pass of the loop body for the row rec with the given id:
\* v_affected_users is a variable of the function and keeps its value from
\* one row to the next.
SyncEventStep(acc, id, rec) ==
    LET v_user_id == PayloadText(rec.payload, "member_id")
        v_group_id == PayloadText(rec.payload, "group_id")
        v_affected_users == IF v_user_id # NULL
                            THEN ArrayAppend(acc.v_affected_users, v_user_id)
                            ELSE acc.v_affected_users
        internal == IF v_user_id # NULL THEN UserInternalId(acc.db, rec.tenant_id, v_user_id) ELSE NULL
    IN  [db |-> IF internal # NULL
                THEN invalidate_user_permissions_cache(acc.db, rec.tenant_id, internal)
                ELSE acc.db,
         outbox |-> InsertOutbox(acc.outbox,
                        PayloadRow("permission_sync", ToString(id),
                                   "iam.permissions.sync_required", rec.tenant_id,
                                   [affected_users |-> v_affected_users,
                                    group_id |-> v_group_id,
                                    event_type |-> rec.event_type])),
         v_affected_users |-> v_affected_users]

RECURSIVE SyncEventLoop(_, _, _)
SyncEventLoop(s, order, k) ==
    IF k = 0 THEN [db |-> s.db, outbox |-> s.outbox, v_affected_users |-> NullArray]
    ELSE CHOOSE r \in {SyncEventStep(acc, order[k], s.outbox[order[k]]) :
                          acc \in {SyncEventLoop(s, order, k - 1)}} : TRUE

\* iam.process_permission_sync_events(), taking the selected rows in the
\* given order
process_permission_sync_events(s, order) == SyncEventLoop(s, order, Len(order))

\* The user named by a membership event has a cache entry or none.
SyncCacheChoices ==
    {BulkDb,
     [BulkDb EXCEPT !.user_object_permissions =
         {[tenant_id |-> HomeTenant, user_id |-> "u1", object_id |-> "o1",
           base_permissions |-> 6, expires_at |-> 1]}]}

InitSync ==
    /\ outbox = <<>>
    /\ now = 0
    /\ ret = [op |-> "none", id |-> NULL, arg |-> NULL, value |-> NULL]
    /\ failed_acks = [i \in Ids |-> 0]
    /\ max_attempts = DefaultMaxAttempts
    /\ calls = NoCalls
    /\ db \in SyncCacheChoices

\* cluster.generate_group_member_added_event / _removed_event: the event row
\* of a membership change, with the payload keys the sync reads.
GroupMemberEvent(event_type, g, u) ==
    /\ Len(outbox) < MaxSourceEvents
    /\ outbox' = InsertOutbox(outbox,
                     PayloadRow("group_member", "grp_" \o g \o "_" \o u, event_type, HomeTenant,
                                [group_id |-> GroupRecordId(g), member_type |-> "user",
                                 member_id |-> UserRecordId(u)]))
    /\ ret' = [op |-> "create_outbox_event", id |-> Len(outbox) + 1, arg |-> NULL, value |-> NULL]
    /\ UNCHANGED <<now, failed_acks, max_attempts, calls, db>>

\* security.generate_permission_set_assigned_event: its payload has no
\* member_id.
PermissionSetAssignedEvent(ps) ==
    /\ Len(outbox) < MaxSourceEvents
    /\ outbox' = InsertOutbox(outbox,
                     PayloadRow("permission_set", ps, "iam.permission_set.assigned_to_group",
                                HomeTenant,
                                [permission_set_id |-> ps,
                                 group_id |-> GroupRecordId(PermissionSetGroup[ps])]))
    /\ ret' = [op |-> "create_outbox_event", id |-> Len(outbox) + 1, arg |-> NULL, value |-> NULL]
    /\ UNCHANGED <<now, failed_acks, max_attempts, calls, db>>

SyncClaim(w) == \E i \in RowIds : MarkEventProcessing(i, w)

ProcessPermissionSyncEvents ==
    \E order \in SyncOrders(outbox) :
        \E r \in {process_permission_sync_events(Tables, order)} :
            /\ Len(r.outbox) <= MaxHookEvents
            /\ outbox' = r.outbox
            /\ db' = r.db
            /\ ret' = [op |-> "process_permission_sync_events", id |-> NULL,
                       arg |-> order, value |-> NULL]
            /\ UNCHANGED <<now, failed_acks, max_attempts, calls>>

NextSync ==
    \/ \E e \in {"iam.group_member.added", "iam.group_member.removed"}, u \in BulkUsers :
          GroupMemberEvent(e, "g1", u)
    \/ \E ps \in {"ps1"} : PermissionSetAssignedEvent(ps)
    \/ \E w \in {"w1"} : SyncClaim(w)
    \/ ProcessPermissionSyncEvents

SpecSync == InitSync /\ [][NextSync]_vars

\* C38: every iam.permissions.sync_required row that one call of
\* iam.process_permission_sync_events appends lists in affected_users the
\* member of the event it originates from and nobody else (nobody when that
\* event names no member), whatever events the call handled before it; and
\* the call changes the status of no row that existed before.
C38_SyncEventListsOwnMember ==
    [][ret'.op = "process_permission_sync_events" =>
         /\ \A i \in RowIds : outbox'[i].status = outbox[i].status
         /\ \A k \in DOMAIN outbox' \ RowIds :
               \A i \in RowIds :
                  ToString(i) = outbox'[k].aggregate_id =>
                     Elements(outbox'[k].payload.affected_users) =
                        {PayloadText(outbox[i].payload, "member_id")} \ {NULL}]_vars

\* ------------------------------------------------ the hierarchy loops, stepwise
MaxCycleUsers == 2   \* users of the manager_id graphs

CycleUsers == 1 .. MaxCycleUsers

\* iam."user" with any manager_id graph over the users: reporting lines, users
\* who are their own manager, and management cycles.
CycleDb(manager) ==
    [k \in DOMAIN EmptyDb \cup {"user"} |->
        IF k = "user"
        THEN {UserRow(HomeTenant, i, manager[i]) : i \in CycleUsers}
        ELSE {}]

\* A faulty loop test that admits one more level.
LevelsLeftMutantOffByOne(level, max_levels) == level <= max_levels

\* ... AND level < max_levels of the two WHILE loops
LevelsLeft(level, max_levels) == level < max_levels

\* A session calls iam.is_manager_of(p_manager_id, p_user_id): the DECLARE
\* section.
BeginIsManagerOf(c, m, u) ==
    /\ calls[c].pc = "idle"
    /\ calls' = [calls EXCEPT ![c] =
                    [pc |-> "is_manager_of", p_manager_id |-> m, current_user_id |-> u,
                     level |-> 0, rows |-> <<>>, arg |-> <<m, u>>]]
    /\ UNCHANGED <<outbox, now, ret, failed_acks, max_attempts, db>>

\* One test of the WHILE condition of iam.is_manager_of and, when it holds,
\* one pass of the loop body; RETURN ends the call.
StepIsManagerOf(c) ==
    /\ calls[c].pc = "is_manager_of"
    /\ IF calls[c].current_user_id # NullNum /\ LevelsLeft(calls[c].level, ManagerMaxLevels)
       THEN IF calls[c].current_user_id = calls[c].p_manager_id
            THEN /\ ret' = [op |-> "is_manager_of", id |-> NULL, arg |-> calls[c].arg,
                            value |-> [error |-> FALSE, result |-> TRUE]]
                 /\ calls' = [calls EXCEPT ![c] = [pc |-> "idle"]]
            ELSE /\ ret' = ret
                 /\ calls' = [calls EXCEPT
                                ![c].current_user_id = ManagerOf(db, HomeTenant, @),
                                ![c].level = @ + 1]
       ELSE /\ ret' = [op |-> "is_manager_of", id |-> NULL, arg |-> calls[c].arg,
                       value |-> [error |-> FALSE, result |-> FALSE]]
            /\ calls' = [calls EXCEPT ![c] = [pc |-> "idle"]]
    /\ UNCHANGED <<outbox, now, failed_acks, max_attempts, db>>

\* A session calls iam.get_user_hierarchy(p_user_id).
BeginGetUserHierarchy(c, u) ==
    /\ calls[c].pc = "idle"
    /\ calls' = [calls EXCEPT ![c] =
                    [pc |-> "get_user_hierarchy", p_manager_id |-> NullNum,
                     current_user_id |-> u, level |-> 0, rows |-> <<>>, arg |-> <<u>>]]
    /\ UNCHANGED <<outbox, now, ret, failed_acks, max_attempts, db>>

\* One test of the WHILE condition of iam.get_user_hierarchy and, when it
\* holds, one pass of the body (RETURN QUERY adds the user's row, if any);
\* the end of the loop returns the rows.
StepGetUserHierarchy(c) ==
    /\ calls[c].pc = "get_user_hierarchy"
    /\ IF calls[c].current_user_id # NullNum /\ LevelsLeft(calls[c].level, HierarchyMaxLevels)
       THEN /\ ret' = ret
            /\ calls' = [calls EXCEPT
                           ![c].rows =
                               IF {u \in db.user : u.tenant_id = HomeTenant
                                                   /\ u.id = calls[c].current_user_id} = {}
                               THEN @
                               ELSE Append(@, [level |-> calls[c].level,
                                               user_id |-> calls[c].current_user_id,
                                               manager_id |-> ManagerOf(db, HomeTenant,
                                                                 calls[c].current_user_id)]),
                           ![c].current_user_id = ManagerOf(db, HomeTenant, @),
                           ![c].level = @ + 1]
       ELSE /\ ret' = [op |-> "get_user_hierarchy", id |-> NULL, arg |-> calls[c].arg,
                       value |-> [error |-> FALSE, result |-> calls[c].rows]]
            /\ calls' = [calls EXCEPT ![c] = [pc |-> "idle"]]
    /\ UNCHANGED <<outbox, now, failed_acks, max_attempts, db>>

\* Any manager_id graph over the users, and no call begun.
InitLoops ==
    /\ outbox = <<>>
    /\ now = 0
    /\ ret = [op |-> "none", id |-> NULL, arg |-> NULL, value |-> NULL]
    /\ failed_acks = [i \in Ids |-> 0]
    /\ max_attempts = DefaultMaxAttempts
    /\ calls = NoCalls
    /\ \E manager \in [CycleUsers -> CycleUsers \cup {NullNum}] : db = CycleDb(manager)

\* The loops of the session that is inside a call.
LoopSteps == StepIsManagerOf("s1") \/ StepGetUserHierarchy("s1")

\* Callers may name a user that does not exist (MaxCycleUsers + 1).
NextLoops ==
    \/ \E m \in 1 .. MaxCycleUsers + 1, u \in CycleUsers : BeginIsManagerOf("s1", m, u)
    \/ \E u \in CycleUsers : BeginGetUserHierarchy("s1", u)
    \/ StepIsManagerOf("s1")
    \/ StepGetUserHierarchy("s1")

\* A session that is inside a function keeps running it.
SpecLoops == InitLoops /\ [][NextLoops]_vars /\ WF_vars(LoopSteps)

\* C39: on every manager_id graph, management cycles included, every call of
\* iam.is_manager_of and of iam.get_user_hierarchy returns, and its loop makes
\* at most 10 passes, each visiting one user, so that get_user_hierarchy
\* returns at most 10 rows.
C39_LoopsTerminateWithinTen ==
    /\ [](/\ calls["s1"].pc # "idle" => calls["s1"].level <= 10
          /\ ret.op = "get_user_hierarchy" => Len(ret.value.result) <= 10)
    /\ (calls["s1"].pc = "is_manager_of") ~> (calls["s1"].pc = "idle")
    /\ (calls["s1"].pc = "get_user_hierarchy") ~> (calls["s1"].pc = "idle")

\* C39 witness: get_user_hierarchy has returned from a management cycle of two
\* users, with 10 rows that go round the cycle.
C39_Witness ==
    /\ ret.op = "get_user_hierarchy"
    /\ Len(ret.value.result) = 10
    /\ ret.value.result[1].user_id = ret.value.result[3].user_id
    /\ ret.value.result[1].user_id # ret.value.result[2].user_id
    /\ calls["s1"].pc = "idle"

====
